---- MODULE Spec2Model ----
(***************************************************************************)
(* Listener registry and dispatch engine of src/src/EventEmitter.js       *)
(* (EventEmitterMixin): one emitter instance, its #events map, the        *)
(* limited-use wrappers, and the synchronous call stack of emit / add /   *)
(* remove with re-entrant subscriber bodies (Spec).                       *)
(*                                                                         *)
(* Decorators of src/unnamed/part_000: the wiring of listen directives     *)
(* through pending listeners (SpecWiring) and the methods wrapped by the   *)
(* emit decorator (SpecEmit).                                              *)
(***************************************************************************)
EXTENDS Integers, Sequences, FiniteSets, TLC

\* ---------------------------------------------------------------- bounds
MaxOps == 4          \* public calls made by the host and by subscriber bodies
MaxWrappers == 2     \* limited-use wrappers created (once / prependOnceListener)
MaxFaults == 2       \* faults thrown by subscriber bodies
MaxObjects == 3      \* objects constructed by a program that uses the decorators
MaxSubscribers == 2  \* subscribers of the event raised by a decorated method

\* ---------------------------------------------------------------- values
UserKey == "k"
ErrorKey == "error"
MonitorKey == "errorMonitor"
NewListenerKey == "newListener"
RemoveListenerKey == "removeListener"

\* a plain callable handed in by the caller
Fn(i) == [wrap |-> FALSE, id |-> i]
\* the closure limitedWrapped created by #addLimitedListener
Wrapped(w) == [wrap |-> TRUE, id |-> w]
NoL == [wrap |-> FALSE, id |-> 0]
\* a value that is not a function, handed in as a listener
NonCallable == [wrap |-> FALSE, id |-> 0, callable |-> FALSE]

NoArgs == [type |-> "", l |-> NoL, prepend |-> FALSE, fault |-> 0]

VARIABLES
    events,        \* #events: Map type -> array of listeners (DOMAIN = keys present)
    keyOrder,      \* #events: the keys present, in the Map's insertion order
    onceRegistry,  \* #onceRegistry: WeakMap listener -> listener
    wrappers,      \* closures of #addLimitedListener: listener, type, count
    stack,         \* synchronous call stack, top last
    exc,           \* fault being propagated (0: none)
    nfault,        \* faults thrown so far
    ops,           \* public calls made so far
    last,          \* the call of the host or of a subscriber body that completed last
    scope,         \* the host program: its event keys, its callables, its budget of calls
    mxListeners,   \* #mxListeners: <<>> while undefined, <<n>> once set
    warned,        \* the keys whose array in #events carries the warned flag
    rejections,    \* rejection handlers attached by #emit: reason, key, whether it has run
    heap,          \* decorators: the objects constructed so far, by identity 1..Len(heap)
    wlast          \* decorators: the construction, emit or method call that completed last

vars == <<events, keyOrder, onceRegistry, wrappers, stack, exc, nfault, ops, last, scope,
          mxListeners, warned, rejections, heap, wlast>>

\* the variables of the registry
emitterVars == <<events, keyOrder, onceRegistry, wrappers, stack, exc, nfault, ops, last, scope,
                 mxListeners, warned, rejections>>

\* ---------------------------------------------------------------- helpers
Has(ev, type) == type \in DOMAIN ev

Get(ev, type) == IF Has(ev, type) THEN ev[type] ELSE <<>>

MapSet(ev, type, list) == [t \in DOMAIN ev \cup {type} |-> IF t = type THEN list ELSE ev[t]]

MapDelete(ev, type) == [t \in DOMAIN ev \ {type} |-> ev[t]]

Count(l, list) == Cardinality({i \in 1..Len(list) : list[i] = l})

\* Array.prototype.indexOf, 1-based, 0 when absent
IndexOf(list, l) ==
    IF \E i \in 1..Len(list) : list[i] = l
    THEN CHOOSE i \in 1..Len(list) : list[i] = l /\ \A j \in 1..(i - 1) : list[j] # l
    ELSE 0

\* Array.prototype.splice(index, 1)
Splice(list, idx) == [i \in 1..(Len(list) - 1) |-> IF i < idx THEN list[i] ELSE list[i + 1]]

Top == stack[Len(stack)]

Pop(st) == SubSeq(st, 1, Len(st) - 1)

EmptyMap == [t \in {} |-> <<>>]

F0 == [kind |-> "none", type |-> "", l |-> NoL, prepend |-> FALSE, args |-> NoArgs,
       pc |-> "", snap |-> <<>>, atStart |-> <<>>, delivered |-> <<>>,
       caught |-> 0, toError |-> {}, noError |-> {}, ops0 |-> 0,
       idx |-> 0, len0 |-> 0, live |-> FALSE, arr |-> <<>>, keysTodo |-> <<>>,
       notified |-> <<>>, evStart |-> EmptyMap, keysStart |-> <<>>]

L0 == [kind |-> "none", type |-> "", l |-> NoL, prepend |-> FALSE, result |-> "",
       atStart |-> <<>>, delivered |-> <<>>, before |-> <<>>, after |-> <<>>,
       thrown |-> 0, caught |-> 0, toError |-> {}, noError |-> {}, cause |-> "",
       notified |-> <<>>, evStart |-> EmptyMap, keysStart |-> <<>>, evEnd |-> EmptyMap,
       dropped |-> EmptyMap, quiet |-> FALSE, warned |-> FALSE]

EmptyRegistry == [x \in {} |-> NoL]

\* the keys of seq that are not in gone, in their order
Without(seq, gone) ==
    LET F[n \in 0..Len(seq)] ==
            IF n = 0 THEN <<>>
            ELSE IF seq[n] \in gone THEN F[n - 1] ELSE Append(F[n - 1], seq[n])
    IN  F[Len(seq)]

\* Map order: a deleted key leaves the order, a new key goes to the end (one
\* call of Map.prototype.set adds at most one key)
KeysAfter(keys, ev, ev2) ==
    LET kept == Without(keys, DOMAIN ev \ DOMAIN ev2)
        added == DOMAIN ev2 \ DOMAIN ev
    IN  IF added = {} THEN kept ELSE Append(kept, CHOOSE t \in added : TRUE)

\* the forEach loops of #removeListeners / #removeAllListeners in progress
\* when #events goes from ev to ev2: Map.prototype.forEach skips a key that was
\* deleted and visits a key that was added; an array whose key was deleted is
\* no longer the one in #events (emptied: it was deleted by #removeListener,
\* which had spliced its last entry out)
Tracked(st, ev, ev2, emptied) ==
    LET gone == DOMAIN ev \ DOMAIN ev2
    IN  [p \in 1..Len(st) |->
            IF st[p].kind # "bulk" THEN st[p]
            ELSE [st[p] EXCEPT
                    !.keysTodo = IF st[p].pc = "all" THEN KeysAfter(@, ev, ev2) ELSE @,
                    !.live = @ /\ st[p].type \notin gone,
                    !.arr = IF st[p].live /\ st[p].type \in gone
                            THEN (IF emptied THEN <<>> ELSE ev[st[p].type])
                            ELSE @]]

\* ------------------------------------------------- the registry's code
\* mutant: the listener is stored before newListener is raised
AddListenerInsertsFirst(ev, type, l, prepend) ==
    MapSet(ev, type, IF prepend THEN <<l>> \o Get(ev, type) ELSE Append(Get(ev, type), l))

\* #addListener, up to the newListener notification: nothing is stored yet
AddListenerBeforeNotify(ev, type, l, prepend) == ev

\* mutant: the prepend flag is ignored
InsertListenerAppendOnly(ev, type, l, prepend) ==
    MapSet(ev, type, Append(Get(ev, type), l))

\* get captureRejections: this.#captureRejections ?? this.constructor.captureRejections,
\* the field set by the constructor from a truthy option, the static false
CaptureRejections(option) == option

\* mutant: the handler is attached whatever captureRejections says
CapturesAlways(capture, thenable) == thenable

\* #emit: a rejection handler is attached to what the listener returned
Captures(capture, thenable) == capture /\ thenable

\* #emit, rejection handler: where the rejection goes
RejectionRoute(ev) ==
    IF Has(ev, ErrorKey) THEN "toError"
    ELSE IF Has(ev, MonitorKey) THEN "toMonitor"
    ELSE "throw"

\* #checkListener: typeof listener === "function"
CheckListener(l) == l # NonCallable

\* #addListener: create the list if absent, then unshift or push
InsertListener(ev, type, l, prepend) ==
    LET existing == Get(ev, type)
    IN  MapSet(ev, type, IF prepend THEN <<l>> \o existing ELSE Append(existing, l))

\* static defaultMaxListeners
DefaultMaxListeners == 10

\* the constructor: if (args[0]?.maxListeners) this.#mxListeners = args[0].maxListeners
\* (option 0: no option given, or a falsy one)
ConstructedMax(option) == IF option # 0 THEN <<option>> ELSE <<>>

\* get maxListeners: this.#mxListeners ?? this.constructor.defaultMaxListeners
MaxListeners(mx, classDefault) == IF mx = <<>> THEN classDefault ELSE mx[1]

\* mutant: a list that has reached the ceiling takes no further entry
AddListenerStoreCapped(ev, type, l, prepend, max, wrn) ==
    IF max > 0 /\ Len(Get(ev, type)) >= max
    THEN [ev |-> ev, warn |-> type \notin wrn, warned |-> wrn \cup {type}]
    ELSE [ev |-> InsertListener(ev, type, l, prepend), warn |-> FALSE, warned |-> wrn]

\* mutant: the warning is printed as soon as the list reaches the ceiling
AddListenerStoreWarnsAtCeiling(ev, type, l, prepend, max, wrn) ==
    LET ev2 == InsertListener(ev, type, l, prepend)
        warn == max > 0 /\ Len(ev2[type]) >= max /\ type \notin wrn
    IN  [ev |-> ev2, warn |-> warn, warned |-> IF warn THEN wrn \cup {type} ELSE wrn]

\* #addListener after the newListener notification: the insertion, then the
\* ceiling check that flags the array and prints the warning
AddListenerStore(ev, type, l, prepend, max, wrn) ==
    LET ev2 == InsertListener(ev, type, l, prepend)
        warn == max > 0 /\ Len(ev2[type]) > max /\ type \notin wrn
    IN  [ev |-> ev2, warn |-> warn, warned |-> IF warn THEN wrn \cup {type} ELSE wrn]

\* the warned flag is a property of the array: it goes when the array leaves
\* #events
WarnedKept(wrn, ev2) == wrn \cap DOMAIN ev2

\* #removeListener: the lookup of the listener in #onceRegistry
ResolveOnce(reg, l) == IF l \in DOMAIN reg THEN reg[l] ELSE l

\* #removeListener: this.#onceRegistry.delete(listener), after the lookup
RegistryAfterRemove(reg, l) ==
    IF l \in DOMAIN reg THEN [x \in DOMAIN reg \ {reg[l]} |-> reg[x]] ELSE reg

\* Array.prototype.lastIndexOf, 1-based, 0 when absent
LastIndexOf(list, l) ==
    IF \E i \in 1..Len(list) : list[i] = l
    THEN CHOOSE i \in 1..Len(list) : list[i] = l /\ \A j \in (i + 1)..Len(list) : list[j] # l
    ELSE 0

\* mutant: the last matching entry is removed instead of the first
RemoveLast(ev, type, l) ==
    LET list == ev[type]
        idx == LastIndexOf(list, l)
    IN  IF idx = 0 THEN ev
        ELSE IF Len(list) = 1 THEN MapDelete(ev, type)
        ELSE MapSet(ev, type, Splice(list, idx))

\* mutant: the entry found is left in its list
RemoveFirstKeepsEntry(ev, type, l) == ev

\* mutant: the emptied list stays in #events
RemoveFirstKeepsEmptyList(ev, type, l) ==
    LET list == ev[type]
        idx == IndexOf(list, l)
    IN  IF idx = 0 THEN ev ELSE MapSet(ev, type, Splice(list, idx))

\* #removeListener: indexOf, splice, delete of the emptied list
RemoveFirst(ev, type, l) ==
    LET list == ev[type]
        idx == IndexOf(list, l)
    IN  IF idx = 0 THEN ev
        ELSE IF Len(list) = 1 THEN MapDelete(ev, type)
        ELSE MapSet(ev, type, Splice(list, idx))

\* mutant: the notification is raised with the entry still in its list
RemoveListenerNotifiesFirst(ev, reg, type, l) ==
    IF ~Has(ev, type)
    THEN [ev |-> ev, reg |-> reg, l |-> l, notify |-> FALSE]
    ELSE [ev |-> ev, reg |-> RegistryAfterRemove(reg, l), l |-> ResolveOnce(reg, l),
          notify |-> TRUE]

\* #removeListener up to its removeListener notification
RemoveListenerStep(ev, reg, type, l) ==
    IF ~Has(ev, type)
    THEN [ev |-> ev, reg |-> reg, l |-> l, notify |-> FALSE]
    ELSE LET r == ResolveOnce(reg, l)
         IN  [ev |-> RemoveFirst(ev, type, r), reg |-> RegistryAfterRemove(reg, l),
              l |-> r, notify |-> TRUE]

\* listeners(type): originals through #onceRegistry
Listeners(ev, reg, type) ==
    LET list == Get(ev, type)
    IN  [i \in 1..Len(list) |-> IF list[i] \in DOMAIN reg THEN reg[list[i]] ELSE list[i]]

\* eventNames(): [...this.#events.keys()]
EventNames(keys) == keys

\* listenerCount(type)
ListenerCount(ev, type) == IF ~Has(ev, type) THEN 0 ELSE Len(ev[type])

\* #emit: a list is found for type (an empty array would count as found)
EmitFinds(ev, type) == Has(ev, type)

\* #emit: listeners.slice()
Slice(list) == list

\* rawListeners(type): this.#events.get(type).slice() ?? []. Map.prototype.get
\* gives undefined for an absent key and undefined.slice throws a TypeError
\* before ?? is reached
RawListeners(ev, type) ==
    IF Has(ev, type) THEN [fault |-> FALSE, list |-> Slice(ev[type])]
    ELSE [fault |-> TRUE, list |-> <<>>]

\* mutant: the loop walks the live list instead of the copy
IterSourceLive(fr, ev) == Get(ev, fr.type)

\* #emit: the sequence the for-of loop walks
IterSource(fr, ev) == fr.snap

\* mutant: the error key is not consulted
ErrorRouteIgnoresError(ev) == IF Has(ev, MonitorKey) THEN "toMonitor" ELSE "throw"

\* mutant: the monitor key is consulted before the error key
ErrorRouteMonitorFirst(ev) ==
    IF Has(ev, MonitorKey) THEN "toMonitor"
    ELSE IF Has(ev, ErrorKey) THEN "toError"
    ELSE "throw"

\* #emit, catch block: where a subscriber's fault goes
ErrorRoute(ev) ==
    IF Has(ev, ErrorKey) THEN "toError"
    ELSE IF Has(ev, MonitorKey) THEN "toMonitor"
    ELSE "throw"

\* mutant: the fault is dropped once the monitor has seen it
AfterRouteSwallows(pc) == "continue"

\* #emit, catch block: what follows the redirected emit once it has returned
AfterRoute(pc) == IF pc = "toError" THEN "continue" ELSE "rethrow"

\* mutant: emit reports true whether or not a list existed
EmitResultAlwaysTrue(found) == "true"

\* #emit: the value returned
EmitResult(found) == IF found THEN "true" ELSE "false"

\* ------------------------------------------------------------- frames
EmitFrame(ev, type, args) ==
    [F0 EXCEPT !.kind = "emit", !.type = type, !.args = args, !.pc = "deliver",
               !.snap = Slice(ev[type]), !.atStart = ev[type]]

\* a subscriber body running; via is the wrapper that called it (0: none)
BodyFrame(l, via, args) ==
    [F0 EXCEPT !.kind = "body", !.l = l, !.caught = via, !.args = args]

\* #addListener waiting for its newListener notification; atStart and ops0
\* record the list and the number of public calls when it was entered
AddFrame(type, l, prepend, atStart) ==
    [F0 EXCEPT !.kind = "add", !.type = type, !.l = l, !.prepend = prepend,
               !.pc = "notify", !.atStart = atStart, !.ops0 = ops + 1]

\* #removeListener waiting for its removeListener notification; atStart
\* records the list when it was entered
RemoveFrame(type, l, atStart) ==
    [F0 EXCEPT !.kind = "remove", !.type = type, !.l = l, !.pc = "notify",
               !.atStart = atStart]

\* the rejection handler that #emit attached with result.then, running in a
\* later turn for the reason f
RejectionFrame(f, route) ==
    [F0 EXCEPT !.kind = "rejection", !.caught = f, !.pc = route]

WrapperFrame(w, args) ==
    [F0 EXCEPT !.kind = "wrapper", !.l = Wrapped(w), !.pc = "removing", !.args = args]

\* #removeListeners(type) about to walk the list it found with forEach
KeyedFrame(ev, keys, type) ==
    [F0 EXCEPT !.kind = "bulk", !.pc = "keyed", !.type = type, !.idx = 1,
               !.len0 = Len(ev[type]), !.live = TRUE, !.atStart = ev[type],
               !.evStart = ev, !.keysStart = keys, !.ops0 = ops + 1]

\* #removeAllListeners() about to walk #events with Map.prototype.forEach
AllFrame(ev, keys) ==
    [F0 EXCEPT !.kind = "bulk", !.pc = "all", !.keysTodo = keys,
               !.evStart = ev, !.keysStart = keys, !.ops0 = ops + 1]

\* the array a forEach loop walks: the one in #events, or what it held when its
\* key was deleted
Arr(fr, ev) == IF fr.live THEN Get(ev, fr.type) ELSE fr.arr

\* Array.prototype.forEach has an index left to visit: below the length it
\* read at the start and present in the array
InnerActive(fr, ev) == fr.type # "" /\ fr.idx <= fr.len0 /\ fr.idx <= Len(Arr(fr, ev))

\* #emitRemoved: the listener reported, looked up in #onceRegistry
EmitRemoved(reg, l) == IF l \in DOMAIN reg THEN reg[l] ELSE l

\* a returning removeAllListeners: ev is #events before its delete / clear,
\* evEnd after it
BulkDone(fr, ev, evEnd) ==
    [L0 EXCEPT !.kind = "bulk", !.type = IF fr.pc = "all" THEN "" ELSE fr.type,
               !.result = "ok", !.cause = fr.pc, !.notified = fr.notified,
               !.evStart = fr.evStart, !.keysStart = fr.keysStart, !.evEnd = evEnd,
               !.dropped = [t \in DOMAIN ev \ DOMAIN evEnd |-> ev[t]],
               !.quiet = (ops = fr.ops0)]

NewListenerArgs(type, l, prepend) == [NoArgs EXCEPT !.type = type, !.l = l, !.prepend = prepend]

RemoveListenerArgs(type, l) == [NoArgs EXCEPT !.type = type, !.l = l]

FaultArgs(f) == [NoArgs EXCEPT !.fault = f]

EmitDone(fr, result, thrown, cause) ==
    [L0 EXCEPT !.kind = "emit", !.type = fr.type, !.result = result,
               !.atStart = fr.atStart, !.delivered = fr.delivered, !.thrown = thrown,
               !.caught = fr.caught, !.toError = fr.toError, !.noError = fr.noError,
               !.cause = cause]

AddDone(type, l, prepend, before, after) ==
    [L0 EXCEPT !.kind = "add", !.type = type, !.l = l, !.prepend = prepend,
               !.result = "ok", !.before = before, !.after = after]

\* rawListeners returned list, or threw (thrown # 0); before is the stored list
RawDone(type, before, list, thrown) ==
    [L0 EXCEPT !.kind = "raw", !.type = type, !.before = before, !.after = list,
               !.result = IF thrown = 0 THEN "ok" ELSE "throw", !.thrown = thrown]

\* #addListener left by the TypeError of #checkListener
AddRejected(type, l, prepend, thrown) ==
    [L0 EXCEPT !.kind = "add", !.type = type, !.l = l, !.prepend = prepend,
               !.result = "throw", !.thrown = thrown, !.cause = "checkListener"]

\* setMaxListeners returned
SetMaxDone == [L0 EXCEPT !.kind = "setMax", !.result = "ok"]

RemoveDone(type, l, before, after) ==
    [L0 EXCEPT !.kind = "remove", !.type = type, !.l = l, !.result = "ok",
               !.before = before, !.after = after]

\* a fault leaving the bottom frame reaches the host, which catches it
Leaving(e) == IF Len(stack) = 1 THEN 0 ELSE e

\* the host, or a running subscriber body, may call a public method (the body
\* frame of a value that is not a function is the failing listener.apply)
CanCall ==
    /\ exc = 0
    /\ ops < scope.budget
    /\ IF stack = <<>> THEN TRUE ELSE Top.kind = "body" /\ Top.l # NonCallable

\* no decorator call has completed
W0 == [kind |-> "none", obj |-> 0, fault |-> "", invoked |-> <<>>, mode |-> "",
       args |-> <<>>, result |-> 0, trace |-> <<>>, seen |-> <<>>, identity |-> ""]

\* the host programs explored: plain use, fault routing, each meta-event, and
\* removal (single and bulk) under removeListener subscribers
Scopes ==
    { [types |-> {UserKey}, fns |-> {1, 2}, prepends |-> BOOLEAN, bulk |-> FALSE,
       budget |-> MaxOps, option |-> 0, classDefault |-> DefaultMaxListeners,
       ceilings |-> {}, reads |-> FALSE, limits |-> {}, junk |-> FALSE, capture |-> FALSE,
       defers |-> FALSE],
      [types |-> {UserKey, ErrorKey, MonitorKey}, fns |-> {1}, prepends |-> {FALSE},
       bulk |-> FALSE, budget |-> MaxOps, option |-> 0, classDefault |-> DefaultMaxListeners,
       ceilings |-> {}, reads |-> FALSE, limits |-> {}, junk |-> FALSE, capture |-> FALSE,
       defers |-> FALSE],
      [types |-> {UserKey, NewListenerKey}, fns |-> {1}, prepends |-> BOOLEAN,
       bulk |-> FALSE, budget |-> MaxOps, option |-> 0, classDefault |-> DefaultMaxListeners,
       ceilings |-> {}, reads |-> FALSE, limits |-> {}, junk |-> FALSE, capture |-> FALSE,
       defers |-> FALSE],
      [types |-> {UserKey, RemoveListenerKey}, fns |-> {1}, prepends |-> {FALSE},
       bulk |-> TRUE, budget |-> MaxOps, option |-> 0, classDefault |-> DefaultMaxListeners,
       ceilings |-> {}, reads |-> FALSE, limits |-> {}, junk |-> FALSE, capture |-> FALSE,
       defers |-> FALSE],
      [types |-> {RemoveListenerKey}, fns |-> {1, 2}, prepends |-> {FALSE},
       bulk |-> TRUE, budget |-> MaxOps - 1, option |-> 0,
       classDefault |-> DefaultMaxListeners, ceilings |-> {}, reads |-> FALSE, limits |-> {}, junk |-> FALSE, capture |-> FALSE,
       defers |-> FALSE],
      [types |-> {UserKey}, fns |-> {1}, prepends |-> {FALSE}, bulk |-> FALSE,
       budget |-> MaxOps, option |-> 1, classDefault |-> DefaultMaxListeners,
       ceilings |-> {0, 2}, reads |-> FALSE, limits |-> {}, junk |-> FALSE, capture |-> FALSE,
       defers |-> FALSE],
      [types |-> {UserKey}, fns |-> {1}, prepends |-> {FALSE}, bulk |-> TRUE,
       budget |-> MaxOps, option |-> 0, classDefault |-> 1, ceilings |-> {}, reads |-> FALSE, limits |-> {}, junk |-> FALSE, capture |-> FALSE,
       defers |-> FALSE],
      [types |-> {UserKey}, fns |-> {1}, prepends |-> {FALSE}, bulk |-> FALSE,
       budget |-> MaxOps, option |-> 0, classDefault |-> DefaultMaxListeners,
       ceilings |-> {}, reads |-> TRUE, limits |-> {}, junk |-> FALSE, capture |-> FALSE,
       defers |-> FALSE],
      [types |-> {UserKey}, fns |-> {1}, prepends |-> {FALSE}, bulk |-> FALSE,
       budget |-> MaxOps + 1, option |-> 0, classDefault |-> DefaultMaxListeners,
       ceilings |-> {}, reads |-> FALSE, limits |-> {2}, junk |-> FALSE, capture |-> FALSE,
       defers |-> FALSE],
      [types |-> {UserKey}, fns |-> {1}, prepends |-> {FALSE}, bulk |-> FALSE,
       budget |-> MaxOps, option |-> 0, classDefault |-> DefaultMaxListeners,
       ceilings |-> {}, reads |-> FALSE, limits |-> {}, junk |-> TRUE, capture |-> FALSE,
       defers |-> FALSE],
      [types |-> {UserKey, ErrorKey}, fns |-> {1}, prepends |-> {FALSE}, bulk |-> FALSE,
       budget |-> MaxOps - 1, option |-> 0, classDefault |-> DefaultMaxListeners,
       ceilings |-> {}, reads |-> FALSE, limits |-> {}, junk |-> FALSE, capture |-> TRUE,
       defers |-> TRUE],
      [types |-> {UserKey, MonitorKey}, fns |-> {1}, prepends |-> {FALSE}, bulk |-> FALSE,
       budget |-> MaxOps - 1, option |-> 0, classDefault |-> DefaultMaxListeners,
       ceilings |-> {}, reads |-> FALSE, limits |-> {}, junk |-> FALSE, capture |-> TRUE,
       defers |-> TRUE],
      [types |-> {UserKey, ErrorKey}, fns |-> {1}, prepends |-> {FALSE}, bulk |-> FALSE,
       budget |-> MaxOps - 1, option |-> 0, classDefault |-> DefaultMaxListeners,
       ceilings |-> {}, reads |-> FALSE, limits |-> {}, junk |-> FALSE, capture |-> FALSE,
       defers |-> TRUE] }

Init ==
    /\ events = EmptyMap
    /\ keyOrder = <<>>
    /\ onceRegistry = EmptyRegistry
    /\ wrappers = <<>>
    /\ stack = <<>>
    /\ exc = 0
    /\ nfault = 0
    /\ ops = 0
    /\ last = L0
    /\ scope \in Scopes
    /\ mxListeners = ConstructedMax(scope.option)
    /\ warned = {}
    /\ rejections = <<>>
    /\ heap = <<>>
    /\ wlast = W0

\* ------------------------------------------------------------ actions
\* #addListener(type, l, prepend) past #checkListener, entered with the
\* wrappers as given
AddListener(type, l, prepend) ==
    LET ev1 == AddListenerBeforeNotify(events, type, l, prepend)
    IN  IF Has(ev1, NewListenerKey)
        THEN /\ events' = ev1
             /\ keyOrder' = KeysAfter(keyOrder, events, ev1)
             /\ stack' = Tracked(stack, events, ev1, FALSE) \o
                              <<AddFrame(type, l, prepend, Get(events, type)),
                                EmitFrame(ev1, NewListenerKey, NewListenerArgs(type, l, prepend))>>
             /\ UNCHANGED <<last, warned>>
        ELSE LET st == AddListenerStore(ev1, type, l, prepend,
                                        MaxListeners(mxListeners, scope.classDefault), warned)
             IN  /\ events' = st.ev
                 /\ keyOrder' = KeysAfter(keyOrder, events, st.ev)
                 /\ stack' = Tracked(stack, events, st.ev, FALSE)
                 /\ warned' = st.warned
                 /\ last' = [AddDone(type, l, prepend, Get(ev1, type), Get(st.ev, type))
                                EXCEPT !.warned = st.warn]

\* #addLimitedListener: the closure limitedWrapped with its captured type,
\* listener and count (limit keeps the count it started with, calls the number
\* of times it reached listener.apply)
LimitedWrapped(type, l, count) ==
    [listener |-> l, type |-> type, count |-> count, limit |-> count, calls |-> 0]

\* on / addListener / prependListener
CallOn(type, l, prepend) ==
    /\ CanCall
    /\ ops' = ops + 1
    /\ IF CheckListener(l)
       THEN /\ AddListener(type, l, prepend)
            /\ UNCHANGED <<exc, nfault>>
       ELSE /\ nfault < MaxFaults
            /\ nfault' = nfault + 1
            /\ exc' = IF stack = <<>> THEN 0 ELSE nfault + 1
            /\ last' = AddRejected(type, l, prepend, nfault + 1)
            /\ UNCHANGED <<events, keyOrder, stack, warned>>
    /\ UNCHANGED <<heap, wlast, rejections, mxListeners, scope, onceRegistry, wrappers>>

\* once / prependOnceListener: #addLimitedListener with count 1
CallOnce(type, l, prepend) ==
    /\ CanCall
    /\ Len(wrappers) < MaxWrappers
    /\ ops' = ops + 1
    /\ wrappers' = Append(wrappers, LimitedWrapped(type, l, 1))
    /\ CheckListener(Wrapped(Len(wrappers) + 1))
    /\ AddListener(type, Wrapped(Len(wrappers) + 1), prepend)
    /\ UNCHANGED <<heap, wlast, rejections, mxListeners, scope, onceRegistry, exc, nfault>>

\* limited(type, l, count, prepend): #addLimitedListener
CallLimited(type, l, count, prepend) ==
    /\ CanCall
    /\ count \in scope.limits
    /\ Len(wrappers) < MaxWrappers
    /\ ops' = ops + 1
    /\ wrappers' = Append(wrappers, LimitedWrapped(type, l, count))
    /\ CheckListener(Wrapped(Len(wrappers) + 1))
    /\ AddListener(type, Wrapped(Len(wrappers) + 1), prepend)
    /\ UNCHANGED <<heap, wlast, rejections, mxListeners, scope, onceRegistry, exc, nfault>>

\* #addListener after the newListener notification returned
AddResume ==
    /\ stack # <<>> /\ Top.kind = "add" /\ exc = 0
    /\ LET st == AddListenerStore(events, Top.type, Top.l, Top.prepend,
                                   MaxListeners(mxListeners, scope.classDefault), warned)
       IN  /\ events' = st.ev
           /\ keyOrder' = KeysAfter(keyOrder, events, st.ev)
           /\ stack' = Tracked(Pop(stack), events, st.ev, FALSE)
           /\ warned' = st.warned
           /\ last' = [AddDone(Top.type, Top.l, Top.prepend, Get(events, Top.type),
                               Get(st.ev, Top.type))
                          EXCEPT !.warned = st.warn]
    /\ UNCHANGED <<heap, wlast, rejections, mxListeners, scope, onceRegistry, wrappers, exc, nfault, ops>>

\* off / removeListener
CallOff(type, l) ==
    /\ CanCall
    /\ ops' = ops + 1
    /\ LET rs == RemoveListenerStep(events, onceRegistry, type, l)
       IN  /\ events' = rs.ev
           /\ keyOrder' = KeysAfter(keyOrder, events, rs.ev)
           /\ onceRegistry' = rs.reg
           /\ warned' = WarnedKept(warned, rs.ev)
           /\ IF rs.notify /\ Has(rs.ev, RemoveListenerKey)
              THEN /\ stack' = Tracked(stack, events, rs.ev, TRUE) \o
                                   <<RemoveFrame(type, rs.l, Get(events, type)),
                                     EmitFrame(rs.ev, RemoveListenerKey, RemoveListenerArgs(type, rs.l))>>
                   /\ UNCHANGED last
              ELSE /\ stack' = Tracked(stack, events, rs.ev, TRUE)
                   /\ last' = RemoveDone(type, rs.l, Get(events, type), Get(rs.ev, type))
    /\ UNCHANGED <<heap, wlast, rejections, mxListeners, scope, wrappers, exc, nfault>>

\* #removeListener after its removeListener notification returned
RemoveResume ==
    /\ stack # <<>> /\ Top.kind = "remove" /\ exc = 0
    /\ stack' = Pop(stack)
    /\ last' = IF Top.l.wrap THEN last
               ELSE RemoveDone(Top.type, Top.l, Top.atStart, Get(events, Top.type))
    /\ UNCHANGED <<heap, wlast, rejections, mxListeners, warned, scope, events, keyOrder, onceRegistry, wrappers, exc, nfault, ops>>

\* removeAllListeners(type): #removeListeners
CallRemoveListeners(type) ==
    /\ CanCall /\ scope.bulk
    /\ ops' = ops + 1
    /\ IF Has(events, type)
       THEN /\ stack' = Append(stack, KeyedFrame(events, keyOrder, type))
            /\ UNCHANGED last
       ELSE /\ UNCHANGED stack
            /\ last' = BulkDone([F0 EXCEPT !.pc = "keyed", !.type = type, !.ops0 = ops,
                                           !.evStart = events, !.keysStart = keyOrder],
                                 events, events)
    /\ UNCHANGED <<heap, wlast, rejections, mxListeners, warned, scope, events, keyOrder, onceRegistry, wrappers, exc, nfault>>

\* removeAllListeners(): #removeAllListeners
CallRemoveAllListeners ==
    /\ CanCall /\ scope.bulk
    /\ ops' = ops + 1
    /\ stack' = Append(stack, AllFrame(events, keyOrder))
    /\ UNCHANGED <<heap, wlast, rejections, mxListeners, warned, scope, events, keyOrder, onceRegistry, wrappers, exc, nfault, last>>

InBulk == stack # <<>> /\ Top.kind = "bulk" /\ exc = 0

\* forEach calls #emitRemoved for the next entry of the array
BulkNotify ==
    /\ InBulk /\ InnerActive(Top, events)
    /\ LET r == EmitRemoved(onceRegistry, Arr(Top, events)[Top.idx])
           args == RemoveListenerArgs(Top.type, r)
           fr == [Top EXCEPT !.idx = @ + 1, !.notified = Append(@, args)]
       IN  stack' = IF Has(events, RemoveListenerKey)
                    THEN Pop(stack) \o <<fr, EmitFrame(events, RemoveListenerKey, args)>>
                    ELSE Append(Pop(stack), fr)
    /\ UNCHANGED <<heap, wlast, rejections, mxListeners, warned, scope, events, keyOrder, onceRegistry, wrappers, exc, nfault, ops, last>>

\* #removeListeners: forEach is done, this.#events.delete(type), return this
BulkKeyedReturn ==
    /\ InBulk /\ Top.pc = "keyed" /\ ~InnerActive(Top, events)
    /\ LET ev2 == MapDelete(events, Top.type)
       IN  /\ events' = ev2
           /\ keyOrder' = KeysAfter(keyOrder, events, ev2)
           /\ stack' = Tracked(Pop(stack), events, ev2, FALSE)
           /\ last' = BulkDone(Top, events, ev2)
           /\ warned' = WarnedKept(warned, ev2)
    /\ UNCHANGED <<heap, wlast, rejections, mxListeners, scope, onceRegistry, wrappers, exc, nfault, ops>>

\* #removeAllListeners: Map.prototype.forEach goes to the next key
BulkNextKey ==
    /\ InBulk /\ Top.pc = "all" /\ ~InnerActive(Top, events)
    /\ Top.keysTodo # <<>>
    /\ LET type == Head(Top.keysTodo)
       IN  stack' = [stack EXCEPT ![Len(stack)] =
                        [@ EXCEPT !.type = type, !.keysTodo = Tail(@), !.idx = 1,
                                  !.len0 = Len(events[type]), !.live = TRUE,
                                  !.arr = <<>>, !.atStart = events[type]]]
    /\ UNCHANGED <<heap, wlast, rejections, mxListeners, warned, scope, events, keyOrder, onceRegistry, wrappers, exc, nfault, ops, last>>

\* #removeAllListeners: every key was visited, this.#events.clear(), return this
BulkAllReturn ==
    /\ InBulk /\ Top.pc = "all" /\ ~InnerActive(Top, events)
    /\ Top.keysTodo = <<>>
    /\ events' = EmptyMap
    /\ keyOrder' = <<>>
    /\ stack' = Tracked(Pop(stack), events, EmptyMap, FALSE)
    /\ last' = BulkDone(Top, events, EmptyMap)
    /\ warned' = WarnedKept(warned, EmptyMap)
    /\ UNCHANGED <<heap, wlast, rejections, mxListeners, scope, onceRegistry, wrappers, exc, nfault, ops>>

\* setMaxListeners(max): this.maxListeners = max; return this
CallSetMaxListeners(max) ==
    /\ CanCall
    /\ max \in scope.ceilings
    /\ ops' = ops + 1
    /\ mxListeners' = <<max>>
    /\ last' = SetMaxDone
    /\ UNCHANGED <<heap, wlast, rejections, warned, scope, events, keyOrder, onceRegistry, wrappers, stack,
                   exc, nfault>>

\* rawListeners(type), called by the host or by a subscriber body; the
\* TypeError it throws for an absent key reaches the caller
CallRawListeners(type) ==
    /\ CanCall
    /\ scope.reads
    /\ ops' = ops + 1
    /\ LET r == RawListeners(events, type)
       IN  IF r.fault
           THEN /\ nfault < MaxFaults
                /\ nfault' = nfault + 1
                /\ exc' = IF stack = <<>> THEN 0 ELSE nfault + 1
                /\ last' = RawDone(type, Get(events, type), r.list, nfault + 1)
           ELSE /\ UNCHANGED <<nfault, exc>>
                /\ last' = RawDone(type, Get(events, type), r.list, 0)
    /\ UNCHANGED <<heap, wlast, rejections, mxListeners, warned, scope, events, keyOrder, onceRegistry,
                   wrappers, stack>>

\* emit(type)
CallEmit(type) ==
    /\ CanCall
    /\ ops' = ops + 1
    /\ IF Has(events, type)
       THEN /\ stack' = Append(stack, EmitFrame(events, type, NoArgs))
            /\ UNCHANGED last
       ELSE /\ UNCHANGED stack
            /\ last' = [L0 EXCEPT !.kind = "emit", !.type = type, !.result = EmitResult(FALSE)]
    /\ UNCHANGED <<heap, wlast, rejections, mxListeners, warned, scope, events, keyOrder, onceRegistry, wrappers, exc, nfault>>

InDelivery == stack # <<>> /\ Top.kind = "emit" /\ Top.pc = "deliver"

NextListener ==
    LET src == IterSource(Top, events)
    IN  IF Len(Top.delivered) < Len(src) THEN src[Len(Top.delivered) + 1] ELSE NoL

Delivering(l) == [stack EXCEPT ![Len(stack)].delivered = Append(@, l)]

\* #emit: the loop calls a plain subscriber
EmitStepPlain ==
    /\ InDelivery /\ exc = 0
    /\ NextListener # NoL /\ ~NextListener.wrap
    /\ stack' = Append(Delivering(NextListener), BodyFrame(NextListener, 0, Top.args))
    /\ UNCHANGED <<heap, wlast, rejections, mxListeners, warned, scope, events, keyOrder, onceRegistry, wrappers, exc, nfault, ops, last>>

\* #emit: the loop calls limitedWrapped, which counts down, removes itself
\* when the count is used up, and then calls the original
EmitStepWrapper ==
    /\ InDelivery /\ exc = 0
    /\ NextListener # NoL /\ NextListener.wrap
    /\ LET l == NextListener
           w == l.id
           c == wrappers[w].count - 1
           rs == RemoveListenerStep(events, onceRegistry, wrappers[w].type, l)
       IN  IF c < 1
           THEN /\ events' = rs.ev
                /\ keyOrder' = KeysAfter(keyOrder, events, rs.ev)
                /\ onceRegistry' = rs.reg
                /\ warned' = WarnedKept(warned, rs.ev)
                /\ IF rs.notify /\ Has(rs.ev, RemoveListenerKey)
                   THEN /\ stack' = Tracked(Delivering(l), events, rs.ev, TRUE) \o
                                <<WrapperFrame(w, Top.args),
                                  RemoveFrame(wrappers[w].type, rs.l, Get(events, wrappers[w].type)),
                                  EmitFrame(rs.ev, RemoveListenerKey,
                                            RemoveListenerArgs(wrappers[w].type, rs.l))>>
                        /\ wrappers' = [wrappers EXCEPT ![w].count = c]
                   ELSE /\ stack' = Append(Tracked(Delivering(l), events, rs.ev, TRUE),
                                            BodyFrame(wrappers[w].listener, w, Top.args))
                        /\ wrappers' = [wrappers EXCEPT ![w].count = c, ![w].calls = @ + 1]
           ELSE /\ UNCHANGED <<events, keyOrder, onceRegistry, warned>>
                /\ stack' = Append(Delivering(l), BodyFrame(wrappers[w].listener, w, Top.args))
                /\ wrappers' = [wrappers EXCEPT ![w].count = c, ![w].calls = @ + 1]
    /\ UNCHANGED <<heap, wlast, rejections, mxListeners, scope, exc, nfault, ops, last>>

\* limitedWrapped after this.removeListener returned: listener.apply(this, args)
WrapperResume ==
    /\ stack # <<>> /\ Top.kind = "wrapper" /\ exc = 0
    /\ LET w == Top.l.id
       IN  /\ stack' = Append(Pop(stack), BodyFrame(wrappers[w].listener, w, Top.args))
           /\ wrappers' = [wrappers EXCEPT ![w].calls = @ + 1]
    /\ UNCHANGED <<heap, wlast, rejections, mxListeners, warned, scope, events, keyOrder, onceRegistry, exc, nfault, ops, last>>

\* #emit: the loop is done, return true
EmitReturn ==
    /\ InDelivery /\ exc = 0
    /\ NextListener = NoL
    /\ stack' = Pop(stack)
    /\ last' = EmitDone(Top, EmitResult(TRUE), 0, "")
    /\ UNCHANGED <<heap, wlast, rejections, mxListeners, warned, scope, events, keyOrder, onceRegistry, wrappers, exc, nfault, ops>>

\* the frame of #emit with the fault it caught recorded against the state of
\* the error key at that moment
Caught(fr, e) ==
    LET rec == [fault |-> e, at |-> Len(fr.delivered), monitor |-> Has(events, MonitorKey)]
    IN  [fr EXCEPT !.caught = e,
                   !.toError = IF Has(events, ErrorKey) THEN @ \cup {rec} ELSE @,
                   !.noError = IF Has(events, ErrorKey) THEN @ ELSE @ \cup {rec}]

\* #emit, catch block: the error key has subscribers
EmitCatchError ==
    /\ InDelivery /\ exc # 0
    /\ ErrorRoute(events) = "toError"
    /\ stack' = Append([stack EXCEPT ![Len(stack)] = [Caught(Top, exc) EXCEPT !.pc = "toError"]],
                       EmitFrame(events, ErrorKey, FaultArgs(exc)))
    /\ exc' = 0
    /\ UNCHANGED <<heap, wlast, rejections, mxListeners, warned, scope, events, keyOrder, onceRegistry, wrappers, nfault, ops, last>>

\* #emit, catch block: no error subscriber, the monitor key has subscribers
EmitCatchMonitor ==
    /\ InDelivery /\ exc # 0
    /\ ErrorRoute(events) = "toMonitor"
    /\ stack' = Append([stack EXCEPT ![Len(stack)] = [Caught(Top, exc) EXCEPT !.pc = "toMonitor"]],
                       EmitFrame(events, MonitorKey, FaultArgs(exc)))
    /\ exc' = 0
    /\ UNCHANGED <<heap, wlast, rejections, mxListeners, warned, scope, events, keyOrder, onceRegistry, wrappers, nfault, ops, last>>

\* #emit, catch block: neither key has subscribers, throw error
EmitCatchThrow ==
    /\ InDelivery /\ exc # 0
    /\ ErrorRoute(events) = "throw"
    /\ stack' = Pop(stack)
    /\ exc' = Leaving(exc)
    /\ last' = EmitDone(Caught(Top, exc), "throw", exc, "unhandled")
    /\ UNCHANGED <<heap, wlast, rejections, mxListeners, warned, scope, events, keyOrder, onceRegistry, wrappers, nfault, ops>>

\* #emit, catch block: this.#emit("error", error) returned, the loop goes on
EmitAfterError ==
    /\ stack # <<>> /\ Top.kind = "emit" /\ Top.pc \in {"toError", "toMonitor"} /\ exc = 0
    /\ AfterRoute(Top.pc) = "continue"
    /\ stack' = [stack EXCEPT ![Len(stack)].pc = "deliver"]
    /\ UNCHANGED <<heap, wlast, rejections, mxListeners, warned, scope, events, keyOrder, onceRegistry, wrappers, exc, nfault, ops, last>>

\* #emit, catch block: this.#emit(errorMonitor, error) returned, throw error
EmitAfterMonitor ==
    /\ stack # <<>> /\ Top.kind = "emit" /\ Top.pc \in {"toError", "toMonitor"} /\ exc = 0
    /\ AfterRoute(Top.pc) = "rethrow"
    /\ stack' = Pop(stack)
    /\ exc' = Leaving(Top.caught)
    /\ last' = EmitDone(Top, "throw", Top.caught, "rethrow")
    /\ UNCHANGED <<heap, wlast, rejections, mxListeners, warned, scope, events, keyOrder, onceRegistry, wrappers, nfault, ops>>

\* a fault thrown inside the catch block of #emit leaves #emit
EmitRouteFault ==
    /\ stack # <<>> /\ Top.kind = "emit" /\ Top.pc \in {"toError", "toMonitor"} /\ exc # 0
    /\ stack' = Pop(stack)
    /\ exc' = Leaving(exc)
    /\ last' = EmitDone(Top, "throw", exc, Top.pc)
    /\ UNCHANGED <<heap, wlast, rejections, mxListeners, warned, scope, events, keyOrder, onceRegistry, wrappers, nfault, ops>>

\* a fault passes through #addListener, #removeListener, limitedWrapped or a
\* forEach of #removeListeners / #removeAllListeners
Propagate ==
    /\ stack # <<>> /\ Top.kind \in {"add", "remove", "wrapper", "bulk"} /\ exc # 0
    /\ stack' = Pop(stack)
    /\ exc' = Leaving(exc)
    /\ last' = IF Top.kind = "wrapper" THEN last
               ELSE [L0 EXCEPT !.kind = Top.kind, !.type = Top.type, !.l = Top.l,
                               !.result = "throw", !.thrown = exc]
    /\ UNCHANGED <<heap, wlast, rejections, mxListeners, warned, scope, events, keyOrder, onceRegistry, wrappers, nfault, ops>>

InBody == stack # <<>> /\ Top.kind = "body"

\* a subscriber body returns
BodyReturn ==
    /\ InBody /\ exc = 0
    /\ Top.l # NonCallable
    /\ stack' = Pop(stack)
    /\ UNCHANGED <<heap, wlast, rejections, mxListeners, warned, scope, events, keyOrder, onceRegistry, wrappers, exc, nfault, ops, last>>

\* a subscriber body returns a promise that rejects later; #emit attaches its
\* rejection handler when captureRejections is set, and goes on with its loop
BodyReturnDeferred ==
    /\ InBody /\ exc = 0
    /\ Top.l # NonCallable
    /\ scope.defers
    /\ nfault < MaxFaults
    /\ nfault' = nfault + 1
    /\ stack' = Pop(stack)
    /\ rejections' =
           IF Captures(CaptureRejections(scope.capture), TRUE)
           THEN Append(rejections, [fault |-> nfault + 1, type |-> stack[Len(stack) - 1].type,
                                    at |-> Len(stack[Len(stack) - 1].delivered),
                                    pending |-> TRUE])
           ELSE rejections
    /\ UNCHANGED <<heap, wlast, mxListeners, warned, scope, events, keyOrder, onceRegistry,
                   wrappers, exc, ops, last>>

\* a later turn: a promise has rejected and its handler runs on an empty stack;
\* it emits error, or emits the monitor key and throws, or just throws (a throw
\* of the handler rejects the promise that then() returned, nothing else)
RejectionTurn(i) ==
    /\ stack = <<>> /\ exc = 0
    /\ rejections[i].pending
    /\ rejections' = [rejections EXCEPT ![i].pending = FALSE]
    /\ LET f == rejections[i].fault
           route == RejectionRoute(events)
       IN  stack' = IF route = "throw" THEN stack
                    ELSE <<RejectionFrame(f, route),
                           EmitFrame(events, IF route = "toError" THEN ErrorKey ELSE MonitorKey,
                                     FaultArgs(f))>>
    /\ UNCHANGED <<heap, wlast, mxListeners, warned, scope, events, keyOrder, onceRegistry,
                   wrappers, exc, nfault, ops, last>>

\* the rejection handler ends: its emit returned or threw, and after the
\* monitor key it throws the reason itself; nobody is there to catch
RejectionReturn ==
    /\ stack # <<>> /\ Top.kind = "rejection"
    /\ stack' = Pop(stack)
    /\ exc' = 0
    /\ UNCHANGED <<heap, wlast, rejections, mxListeners, warned, scope, events, keyOrder,
                   onceRegistry, wrappers, nfault, ops, last>>

\* a subscriber body throws; listener.apply of a value that is not a function
\* throws a TypeError
BodyThrow ==
    /\ InBody /\ exc = 0
    /\ nfault < MaxFaults
    /\ nfault' = nfault + 1
    /\ exc' = nfault + 1
    /\ stack' = Pop(stack)
    /\ UNCHANGED <<heap, wlast, rejections, mxListeners, warned, scope, events, keyOrder, onceRegistry, wrappers, ops, last>>

\* a public call made by a subscriber body threw: the body lets it through
BodyPropagate ==
    /\ InBody /\ exc # 0
    /\ stack' = Pop(stack)
    /\ UNCHANGED <<heap, wlast, rejections, mxListeners, warned, scope, events, keyOrder, onceRegistry, wrappers, exc, nfault, ops, last>>

\* ... or catches it and goes on
BodyCatch ==
    /\ InBody /\ exc # 0
    /\ exc' = 0
    /\ UNCHANGED <<heap, wlast, rejections, mxListeners, warned, scope, events, keyOrder, onceRegistry, wrappers, stack, nfault, ops, last>>

Next ==
    \/ \E type \in scope.types, i \in scope.fns, prepend \in scope.prepends :
           CallOn(type, Fn(i), prepend)
    \/ \E type \in scope.types, i \in scope.fns, prepend \in scope.prepends :
           CallOnce(type, Fn(i), prepend)
    \/ \E type \in scope.types, i \in scope.fns, prepend \in scope.prepends, count \in scope.limits :
           CallLimited(type, Fn(i), count, prepend)
    \/ \E type \in scope.types, prepend \in scope.prepends :
           scope.junk /\ CallOn(type, NonCallable, prepend)
    \/ \E type \in scope.types, prepend \in scope.prepends :
           scope.junk /\ CallOnce(type, NonCallable, prepend)
    \/ \E type \in scope.types, i \in scope.fns : CallOff(type, Fn(i))
    \/ \E type \in scope.types : CallEmit(type)
    \/ \E type \in scope.types : CallRemoveListeners(type)
    \/ CallRemoveAllListeners
    \/ \E max \in scope.ceilings : CallSetMaxListeners(max)
    \/ \E type \in scope.types : CallRawListeners(type)
    \/ BulkNotify
    \/ BulkKeyedReturn
    \/ BulkNextKey
    \/ BulkAllReturn
    \/ AddResume
    \/ RemoveResume
    \/ EmitStepPlain
    \/ EmitStepWrapper
    \/ WrapperResume
    \/ EmitReturn
    \/ EmitCatchError
    \/ EmitCatchMonitor
    \/ EmitCatchThrow
    \/ EmitAfterError
    \/ EmitAfterMonitor
    \/ EmitRouteFault
    \/ Propagate
    \/ BodyReturn
    \/ BodyReturnDeferred
    \/ \E i \in 1..Len(rejections) : RejectionTurn(i)
    \/ RejectionReturn
    \/ BodyThrow
    \/ BodyPropagate
    \/ BodyCatch

Spec == Init /\ [][Next]_vars

\* =====================================================================
\* Decorators (src/unnamed/part_000)
\* =====================================================================
\* An event string is a sequence of tokens: names and the separator "."
Dot == "."

EvPlain == <<"event">>

PathB == <<"b", Dot, "event">>

PathAB == <<"a", Dot, "b", Dot, "event">>

PathAA == <<"a", Dot, "a", Dot, "event">>

NoEvent == <<>>

This == <<"this">>

Props == {"a", "b"}

\* String.prototype.includes
Includes(ev, tok) == \E i \in 1..Len(ev) : ev[i] = tok

\* String.prototype.split(".")
Split(ev) ==
    LET F[n \in 0..Len(ev)] ==
            IF n = 0 THEN << <<>> >>
            ELSE IF ev[n] = Dot THEN Append(F[n - 1], <<>>)
            ELSE [F[n - 1] EXCEPT ![Len(F[n - 1])] = Append(@, ev[n])]
    IN  F[Len(ev)]

\* Array.prototype.join(".")
Join(parts) ==
    LET F[n \in 0..Len(parts)] ==
            IF n = 0 THEN <<>>
            ELSE IF n = 1 THEN parts[1]
            ELSE F[n - 1] \o <<Dot>> \o parts[n]
    IN  F[Len(parts)]

\* a class of the program: the number of @emitter decorators on its chain,
\* whether it extends EventEmitter, the event of its @on method (NoEvent: it
\* has none), the property its field initializer assigns ("": none), and the
\* mode of its @emit method ("": it has none)
Class(emitters, extends, event, uses, mode) ==
    [emitters |-> emitters, extends |-> extends, event |-> event, uses |-> uses, mode |-> mode]

Classes ==
    { Class(0, TRUE, NoEvent, "", ""),       \* new EventEmitter()
      Class(0, FALSE, NoEvent, "b", ""),     \* a plain object { b: ... }
      Class(0, TRUE, EvPlain, "", ""),       \* @on("event"), no @emitter
      Class(0, TRUE, PathB, "b", ""),        \* @on("b.event"), no @emitter
      Class(1, FALSE, PathB, "b", ""),       \* @emitter, @on("b.event")
      Class(1, FALSE, PathAB, "a", ""),      \* @emitter, @on("a.b.event")
      Class(2, FALSE, PathB, "b", "") }      \* @emitter subclass of an @emitter class

\* a fresh instance: no own property, no metadata, no listener
Obj(cls) ==
    [cls |-> cls, props |-> [p \in Props |-> 0], meta |-> FALSE, pending |-> <<>>,
     attached |-> <<>>, ok |-> TRUE, reached |-> FALSE, resolved |-> 0]

\* method.bind(this)
Bound(o) == [obj |-> o, method |-> 1]

\* the object has on / once / emit: EventEmitter.prototype is on its chain
HasOn(h, o) == h[o].cls.extends \/ h[o].cls.emitters > 0

\* emitter[target]; 0 is undefined
PropValue(h, o, target) ==
    IF Len(target) = 1 /\ target[1] \in Props THEN h[o].props[target[1]] ELSE 0

\* EventEmitter._registerPendingListener
RegisterPendingListener(h, emitter, target, event, listener, once) ==
    IF emitter = 0 THEN h
    ELSE [h EXCEPT ![emitter].meta = TRUE,
                   ![emitter].pending = Append(@, [target |-> target, event |-> event,
                                                   listener |-> listener, once |-> once])]

\* EventEmitter._attachListenerTo
AttachListenerTo(h, emitter, event, listener, once) ==
    IF emitter = 0 THEN [h |-> h, fault |-> "Emitter is not defined."]
    ELSE IF HasOn(h, emitter)
    THEN [h |-> [h EXCEPT ![emitter].attached =
                     Append(@, [event |-> event, listener |-> listener, once |-> once])],
          fault |-> ""]
    ELSE [h |-> h, fault |-> "Emitter does not have a listener registration method."]

\* props.add(targetProp): a Set keeps insertion order and no duplicate
SetAdd(props, x) == IF \E i \in 1..Len(props) : props[i] = x THEN props ELSE Append(props, x)

\* EventEmitter._applyPendingListeners: the for-of loop over the pending set,
\* from entry i on; the set is never emptied
RECURSIVE ApplyLoop(_, _, _, _)
ApplyLoop(h, emitter, i, props) ==
    IF i > Len(h[emitter].pending) THEN [h |-> h, props |-> props, fault |-> ""]
    ELSE LET e == h[emitter].pending[i]
             targetProp == IF e.target = This THEN emitter ELSE PropValue(h, emitter, e.target)
         IN  IF Includes(e.event, Dot)
             THEN LET parts == Split(e.event)
                  IN  ApplyLoop(RegisterPendingListener(h, targetProp, Head(parts),
                                                        Join(Tail(parts)), e.listener, e.once),
                                emitter, i + 1, SetAdd(props, targetProp))
             ELSE LET r == AttachListenerTo(h, targetProp, e.event, e.listener, e.once)
                  IN  IF r.fault # "" THEN [h |-> r.h, props |-> props, fault |-> r.fault]
                      ELSE ApplyLoop(r.h, emitter, i + 1, props)

\* the deepest chain of nested calls that ends: one per object; a longer one
\* never ends
MaxDepth == MaxObjects + 1

\* EventEmitter._applyPendingListeners(emitter), then props.forEach from
\* index j on; an object drained through props.forEach is marked reached
RECURSIVE ApplyPendingListeners(_, _, _)
RECURSIVE ApplyProps(_, _, _, _)
ApplyPendingListeners(h, emitter, fuel) ==
    IF emitter = 0 THEN [h |-> h, fault |-> ""]
    ELSE IF ~h[emitter].meta THEN [h |-> h, fault |-> ""]
    ELSE IF fuel = 0 THEN [h |-> h, fault |-> "Maximum call stack size exceeded"]
    ELSE LET r == ApplyLoop(h, emitter, 1, <<>>)
         IN  IF r.fault # "" THEN [h |-> r.h, fault |-> r.fault]
             ELSE ApplyProps(r.h, r.props, 1, fuel - 1)

ApplyProps(h, props, j, fuel) ==
    IF j > Len(props) THEN [h |-> h, fault |-> ""]
    ELSE LET p == props[j]
             h1 == IF p = 0 THEN h ELSE [h EXCEPT ![p].reached = TRUE]
             r == ApplyPendingListeners(h1, p, fuel)
         IN  IF r.fault # "" THEN r ELSE ApplyProps(r.h, props, j + 1, fuel)

\* on (decorator): the initializer of the annotated method, run on the new
\* instance before its fields are assigned
OnInitializer(h, o) ==
    LET event == h[o].cls.event
    IN  IF event = NoEvent THEN [h |-> h, fault |-> ""]
        ELSE IF Includes(event, Dot)
        THEN LET parts == Split(event)
             IN  [h |-> RegisterPendingListener(h, o, Head(parts), Join(Tail(parts)),
                                                Bound(o), FALSE),
                  fault |-> ""]
        ELSE AttachListenerTo(h, o, event, Bound(o), FALSE)

\* mutant: every constructor drains the pending listeners once
DrainsOnce(cls) == 1

\* emitter (decorator): one wrapper constructor per @emitter on the chain, each
\* calling EventEmitter._applyPendingListeners(this) after super(...)
Drains(cls) == cls.emitters

\* the wrapper constructors, from the k-th on
RECURSIVE ApplyWrappers(_, _, _)
ApplyWrappers(h, o, k) ==
    IF k > Drains(h[o].cls) THEN [h |-> h, fault |-> ""]
    ELSE LET r == ApplyPendingListeners(h, o, MaxDepth)
         IN  IF r.fault # "" THEN r ELSE ApplyWrappers(r.h, o, k + 1)

\* the object a listen directive points at, following the properties as they
\* are now (0: some property on the way is undefined)
RECURSIVE ResolvePath(_, _, _)
ResolvePath(h, o, event) ==
    IF o = 0 THEN 0
    ELSE IF ~Includes(event, Dot) THEN o
    ELSE LET parts == Split(event)
         IN  ResolvePath(h, PropValue(h, o, Head(parts)), Join(Tail(parts)))

\* new C(...): initializers of the methods, field initializers, wrapper
\* constructors; a fault leaves the instance unreachable
Constructed(h, cls, v) ==
    LET o == Len(h) + 1
        r1 == OnInitializer(Append(h, Obj(cls)), o)
        h2 == IF cls.uses = "" THEN r1.h ELSE [r1.h EXCEPT ![o].props[cls.uses] = v]
        h3 == [h2 EXCEPT ![o].resolved = IF cls.event = NoEvent THEN 0
                                          ELSE ResolvePath(h2, o, cls.event)]
        r4 == IF r1.fault # "" THEN r1 ELSE ApplyWrappers(h3, o, 1)
    IN  [h |-> [r4.h EXCEPT ![o].ok = (r4.fault = "")], fault |-> r4.fault]

\* the objects a program can refer to
Alive == {o \in 1..Len(heap) : heap[o].ok}

\* no call is in progress in the registry: its variables stay as constructed
EmitterIdle ==
    /\ events = EmptyMap /\ keyOrder = <<>> /\ onceRegistry = EmptyRegistry
    /\ wrappers = <<>> /\ stack = <<>> /\ exc = 0 /\ nfault = 0 /\ ops = 0 /\ last = L0
    /\ scope = [types |-> {}, fns |-> {}, prepends |-> {}, bulk |-> FALSE, budget |-> 0,
                option |-> 0, classDefault |-> DefaultMaxListeners, ceilings |-> {},
                reads |-> FALSE, limits |-> {}, junk |-> FALSE, capture |-> FALSE,
                defers |-> FALSE]
    /\ mxListeners = <<>>
    /\ warned = {}
    /\ rejections = <<>>

InitWiring ==
    /\ EmitterIdle
    /\ heap = <<>>
    /\ wlast = W0

\* new C(...) with the field initializer's value v
Construct(cls, v) ==
    /\ Len(heap) < MaxObjects
    /\ cls.uses = "" => v = 0
    /\ LET r == Constructed(heap, cls, v)
       IN  /\ heap' = r.h
           /\ wlast' = [W0 EXCEPT !.kind = "construct", !.obj = Len(heap) + 1, !.fault = r.fault]
    /\ UNCHANGED emitterVars

\* o.prop = x, for a property that was left undefined by the constructor
Assign(o, x) ==
    /\ heap[o].cls.uses # ""
    /\ heap[o].props[heap[o].cls.uses] = 0
    /\ heap' = [heap EXCEPT ![o].props[heap[o].cls.uses] = x]
    /\ wlast' = [W0 EXCEPT !.kind = "assign", !.obj = o]
    /\ UNCHANGED emitterVars

\* the listeners emit(event) invokes, in order
Invoked(h, o, event) ==
    LET list == h[o].attached
        F[n \in 0..Len(list)] ==
            IF n = 0 THEN <<>>
            ELSE IF list[n].event = event THEN Append(F[n - 1], list[n].listener)
            ELSE F[n - 1]
    IN  F[Len(list)]

\* the listeners left after an emit: the once listeners of the event are gone
AfterEmit(list, event) ==
    LET F[n \in 0..Len(list)] ==
            IF n = 0 THEN <<>>
            ELSE IF list[n].event = event /\ list[n].once THEN F[n - 1]
            ELSE Append(F[n - 1], list[n])
    IN  F[Len(list)]

\* o.emit("event")
Emit(o) ==
    /\ HasOn(heap, o)
    /\ heap' = [heap EXCEPT ![o].attached = AfterEmit(@, EvPlain)]
    /\ wlast' = [W0 EXCEPT !.kind = "emit", !.obj = o, !.invoked = Invoked(heap, o, EvPlain)]
    /\ UNCHANGED emitterVars

WiringNext ==
    \/ \E cls \in Classes, v \in Alive \cup {0} : Construct(cls, v)
    \/ \E o \in Alive, x \in Alive : Assign(o, x)
    \/ \E o \in Alive : Emit(o)

SpecWiring == InitWiring /\ [][WiringNext]_vars

\* programs whose listen directive follows the same property twice, so that
\* properties assigned in a ring lead a drain back to an object being drained
CycleClasses ==
    { Class(0, TRUE, NoEvent, "", ""),       \* new EventEmitter()
      Class(1, FALSE, PathAA, "a", "") }     \* @emitter, @on("a.a.event")

CycleNext ==
    \/ \E cls \in CycleClasses, v \in Alive \cup {0} : Construct(cls, v)
    \/ \E o \in Alive, x \in Alive : Assign(o, x)
    \/ \E o \in Alive : Emit(o)

SpecCycle == InitWiring /\ [][CycleNext]_vars

\* ------------------------------------------------------ emit (decorator)
EmitModes == {"args", "before", "after", "result", "all", "none", "conditional"}

\* the values a decorated method is called with and returns; 0 is falsy
Results == {0, 42}

ArgLists == {<<>>, <<7>>, <<7, 0>>}

Truthy(v) == v # 0

EmitStep(payload) == [op |-> "emit", payload |-> payload]

CallStep == [op |-> "call", payload |-> <<>>]

\* mutant: mode all puts the call arguments before the return value
EmitMethodArgsFirst(mode, args, result) ==
    IF mode = "args" THEN <<EmitStep(args), CallStep>>
    ELSE IF mode \in {"none", "before"} THEN <<EmitStep(<<>>), CallStep>>
    ELSE IF mode = "after" THEN <<CallStep, EmitStep(args)>>
    ELSE IF mode = "result" THEN <<CallStep, EmitStep(<<result>>)>>
    ELSE IF mode = "all" THEN <<CallStep, EmitStep(args \o <<result>>)>>
    ELSE IF Truthy(result) THEN <<CallStep, EmitStep(args)>>
    ELSE <<CallStep>>

\* emit (decorator), event given as a string or symbol: what the function that
\* replaces the method does when called with args and the method returns result
EmitMethod(mode, args, result) ==
    IF mode = "args" THEN <<EmitStep(args), CallStep>>
    ELSE IF mode \in {"none", "before"} THEN <<EmitStep(<<>>), CallStep>>
    ELSE IF mode = "after" THEN <<CallStep, EmitStep(args)>>
    ELSE IF mode = "result" THEN <<CallStep, EmitStep(<<result>>)>>
    ELSE IF mode = "all" THEN <<CallStep, EmitStep(<<result>> \o args)>>
    ELSE IF Truthy(result) THEN <<CallStep, EmitStep(args)>>
    ELSE <<CallStep>>

\* the steps that are carried out: an emit step throws when this.emit is
\* missing, and nothing follows it
Performed(steps, hasEmit) ==
    LET F[n \in 0..Len(steps)] ==
            IF n = 0 THEN [trace |-> <<>>, fault |-> ""]
            ELSE IF F[n - 1].fault # "" THEN F[n - 1]
            ELSE IF steps[n].op = "emit" /\ ~hasEmit
            THEN [trace |-> F[n - 1].trace, fault |-> "Object does not have an 'emit()' method."]
            ELSE [trace |-> Append(F[n - 1].trace, steps[n]), fault |-> ""]
    IN  F[Len(steps)]

\* what the subscribers observe: one delivery per subscriber for every emit
\* step, with its payload and whether the method had been called
Seen(trace, listeners) ==
    LET F[n \in 0..Len(trace)] ==
            IF n = 0 THEN <<>>
            ELSE IF trace[n].op = "emit"
            THEN F[n - 1] \o [i \in 1..Len(listeners) |->
                                 [listener |-> listeners[i], payload |-> trace[n].payload,
                                  called |-> \E m \in 1..(n - 1) : trace[m].op = "call"]]
            ELSE F[n - 1]
    IN  F[Len(trace)]

\* an instance of a class whose method is annotated with emit("event", mode)
InitEmit ==
    /\ EmitterIdle
    /\ \E mode \in EmitModes, extends \in BOOLEAN :
           heap = <<Obj(Class(0, extends, NoEvent, "", mode))>>
    /\ wlast = W0

\* instance.on("event", fn)
Subscribe(o, fn) ==
    /\ HasOn(heap, o)
    /\ Len(heap[o].attached) < MaxSubscribers
    /\ heap' = [heap EXCEPT ![o].attached =
                   Append(@, [event |-> EvPlain, listener |-> [obj |-> 0, method |-> fn],
                              once |-> FALSE])]
    /\ wlast' = [W0 EXCEPT !.kind = "subscribe", !.obj = o]
    /\ UNCHANGED emitterVars

\* instance.method(...args), the method returning result
CallMethod(o, args, result) ==
    /\ heap[o].cls.mode # ""
    /\ LET r == Performed(EmitMethod(heap[o].cls.mode, args, result), HasOn(heap, o))
       IN  wlast' = [W0 EXCEPT !.kind = "method", !.obj = o, !.mode = heap[o].cls.mode,
                               !.args = args, !.result = result, !.fault = r.fault,
                               !.trace = r.trace,
                               !.seen = Seen(r.trace, Invoked(heap, o, EvPlain))]
    /\ UNCHANGED <<emitterVars, heap>>

EmitNext ==
    \/ \E o \in Alive, fn \in 1..MaxSubscribers : Subscribe(o, fn)
    \/ \E o \in Alive, args \in ArgLists, result \in Results : CallMethod(o, args, result)

SpecEmit == InitEmit /\ [][EmitNext]_vars

\* --------------------------- emit (decorator), Event objects and classes
MaxCalls == 2

\* what the decorator is given as event: an Event object built beforehand,
\* the CustomEvent constructor (or a subclass), the Event constructor (or a
\* subclass)
Identities == {"instance", "CustomEvent", "Event"}

\* the type of the pre-built event, and the name of the decorated method
TypeKey == <<"testEvent">>

MethodKey == <<"emitEvent">>

\* a mode argument: a symbol of emit, or a string that names none
ModeArgs == EmitModes \cup {"bogus"}

NoDetail == [tag |-> "none", args |-> <<>>, result |-> 0]

Detail(tag, args, result) ==
    [tag |-> tag,
     args |-> IF tag \in {"args", "all"} THEN args ELSE <<>>,
     result |-> IF tag \in {"result", "all"} THEN result ELSE 0]

\* new Event("testEvent") evaluated once, when the class is defined
Prebuilt == [class |-> "Event", type |-> TypeKey, detail |-> NoDetail, serial |-> 0]

\* new event(name, { detail }) evaluated during the n-th call of the method
Fresh(class, detail, n) == [class |-> class, type |-> MethodKey, detail |-> detail, serial |-> n]

\* mutant: mode all is kept as it is for every identity
EffectiveModeKept(identity, mode) == mode

\* if (mode === emit.all) mode = emit.conditional
EffectiveMode(identity, mode) ==
    IF identity \in {"instance", "Event"} /\ mode = "all" THEN "conditional" ELSE mode

\* the default branches of the three switches
DecorateFault(identity, mode) ==
    LET m == EffectiveMode(identity, mode)
    IN  IF identity = "instance"
        THEN IF m \in {"none", "before", "after", "conditional"} THEN ""
             ELSE "Invalid emit mode for Event object."
        ELSE IF identity = "CustomEvent"
        THEN IF m \in EmitModes THEN "" ELSE "Invalid emit mode for CustomEvent class."
        ELSE IF m \in {"none", "before", "after", "conditional"} THEN ""
             ELSE "Invalid emit mode for Event class."

RaiseStep(tag) == [op |-> "raise", tag |-> tag]

\* the function that replaces the method: when it raises, relative to the
\* call, and what the raise carries
EventMethod(identity, mode, result) ==
    LET m == EffectiveMode(identity, mode)
        carried(tag) == IF identity = "CustomEvent" THEN tag ELSE "none"
    IN  IF m = "args" THEN <<RaiseStep(carried("args")), CallStep>>
        ELSE IF m \in {"none", "before"} THEN <<RaiseStep("none"), CallStep>>
        ELSE IF m = "after" THEN <<CallStep, RaiseStep(carried("args"))>>
        ELSE IF m = "result" THEN <<CallStep, RaiseStep(carried("result"))>>
        ELSE IF m = "all" THEN <<CallStep, RaiseStep(carried("all"))>>
        ELSE IF Truthy(result) THEN <<CallStep, RaiseStep(carried("args"))>>
        ELSE <<CallStep>>

\* the values handed to emit after the name, each one a plain value
Values(seq) == [i \in 1..Len(seq) |-> [val |-> seq[i]]]

\* this.emit(name, ...) of the CustomEvent branch
EmitPayload(tag, args, result) ==
    IF tag = "args" THEN Values(args)
    ELSE IF tag = "result" THEN Values(<<result>>)
    ELSE IF tag = "all" THEN Values(<<result>> \o args)
    ELSE <<>>

\* mutant: an object without dispatchEvent is given the event built for it
RaisedAlwaysBuilds(identity, tag, args, result, dispatch, hasEmit, n) ==
    LET ev == IF identity = "instance" THEN Prebuilt
              ELSE Fresh(identity, Detail(tag, args, result), n)
    IN  IF dispatch THEN [op |-> "dispatch", key |-> ev.type, payload |-> <<ev>>]
        ELSE IF hasEmit THEN [op |-> "emit", key |-> ev.type, payload |-> <<ev>>]
        ELSE [op |-> "throw", key |-> <<>>, payload |-> <<>>]

\* if (this.dispatchEvent) this.dispatchEvent(...) else if (this.emit)
\* this.emit(...) else throw
Raised(identity, tag, args, result, dispatch, hasEmit, n) ==
    LET ev == IF identity = "instance" THEN Prebuilt
              ELSE Fresh(identity, Detail(tag, args, result), n)
    IN  IF dispatch THEN [op |-> "dispatch", key |-> ev.type, payload |-> <<ev>>]
        ELSE IF hasEmit
        THEN IF identity = "instance"
             THEN [op |-> "emit", key |-> ev.type, payload |-> <<ev>>]
             ELSE [op |-> "emit", key |-> MethodKey, payload |-> EmitPayload(tag, args, result)]
        ELSE [op |-> "throw", key |-> <<>>, payload |-> <<>>]

\* the steps carried out by one call: nothing follows a throw
PerformedEvent(steps, identity, args, result, dispatch, hasEmit, n) ==
    LET F[k \in 0..Len(steps)] ==
            IF k = 0 THEN [trace |-> <<>>, fault |-> ""]
            ELSE IF F[k - 1].fault # "" THEN F[k - 1]
            ELSE IF steps[k].op = "call"
            THEN [trace |-> Append(F[k - 1].trace, [op |-> "call", key |-> <<>>, payload |-> <<>>]),
                  fault |-> ""]
            ELSE LET r == Raised(identity, steps[k].tag, args, result, dispatch, hasEmit, n)
                 IN  IF r.op = "throw"
                     THEN [trace |-> F[k - 1].trace,
                           fault |-> "Object does not have an 'emit()' or 'dispatchEvent()' method."]
                     ELSE [trace |-> Append(F[k - 1].trace, r), fault |-> ""]
    IN  F[Len(steps)]

\* a class with a method decorated by emit(identity, mode); dispatch: the class
\* defines dispatchEvent
EventClass(identity, mode, extends, dispatch) ==
    [emitters |-> 0, extends |-> extends, event |-> NoEvent, uses |-> "", mode |-> mode,
     identity |-> identity, dispatch |-> dispatch]

InitEmitEvent ==
    /\ EmitterIdle
    /\ heap = <<>>
    /\ wlast = W0

\* class C { @emit(identity, mode) emitEvent() {} }; new C(): the decorator
\* runs when the class is defined
DefineEventClass(identity, mode, extends, dispatch) ==
    /\ heap = <<>>
    /\ LET fault == DecorateFault(identity, mode)
       IN  /\ heap' = IF fault # "" THEN heap
                      ELSE <<Obj(EventClass(identity, mode, extends, dispatch))
                              @@ [calls |-> 0]>>
           /\ wlast' = [W0 EXCEPT !.kind = "decorate", !.identity = identity, !.mode = mode,
                                  !.fault = fault]
    /\ UNCHANGED emitterVars

\* instance.emitEvent(...args), the method returning result
CallEventMethod(o, args, result) ==
    /\ heap[o].calls < MaxCalls
    /\ LET cls == heap[o].cls
           n == heap[o].calls + 1
           r == PerformedEvent(EventMethod(cls.identity, cls.mode, result), cls.identity,
                               args, result, cls.dispatch, HasOn(heap, o), n)
       IN  /\ heap' = [heap EXCEPT ![o].calls = n]
           /\ wlast' = [W0 EXCEPT !.kind = "method", !.obj = o, !.identity = cls.identity,
                                  !.mode = cls.mode, !.args = args, !.result = result,
                                  !.fault = r.fault, !.trace = r.trace]
    /\ UNCHANGED emitterVars

EmitEventNext ==
    \/ \E identity \in Identities, mode \in ModeArgs, extends \in BOOLEAN, dispatch \in BOOLEAN :
           DefineEventClass(identity, mode, extends, dispatch)
    \/ \E o \in Alive, args \in ArgLists, result \in Results : CallEventMethod(o, args, result)

SpecEmitEvent == InitEmitEvent /\ [][EmitEventNext]_vars

\* ------------------------------------------------------ emits (decorator)
MaxAccesses == 2

\* the kinds of member the decorator accepts
MemberKinds == {"accessor", "getter", "setter"}

EmitsModes == {"get", "set", "both", "init", "all"}

\* what the decorator is given as event: nothing, a string, a symbol that is
\* no mode, an Event object built beforehand, an Event constructor
EmitsIdentities == {"default", "custom", "symbol", "instance", "class"}

MemberKey == "value"

CustomKey == <<"valueChanged">>

\* the values read, written and given as initial value
AccessValues == {0, 42}

\* `get:${event}` and the like
Prefixed(access, member) == <<access, ":", member>>

\* mutant: mode both selects the initialization as well
WrapsInitWithBoth(kind, mode, access) ==
    IF access = "get" THEN kind \in {"getter", "accessor"} /\ mode \in {"both", "get", "all"}
    ELSE IF access = "set" THEN kind \in {"setter", "accessor"} /\ mode \in {"both", "set", "all"}
    ELSE kind = "accessor" /\ mode \in {"init", "all", "both"}

\* the conditions under which access.get, access.set and access.init are
\* defined
Wraps(kind, mode, access) ==
    IF access = "get" THEN kind \in {"getter", "accessor"} /\ mode \in {"both", "get", "all"}
    ELSE IF access = "set" THEN kind \in {"setter", "accessor"} /\ mode \in {"both", "set", "all"}
    ELSE kind = "accessor" /\ mode \in {"init", "all"}

\* emits(...args): an argument that is neither a string, a symbol nor an Event
\* object is taken for the decorated member, and the decorator runs on it
\* without a context
EmitsFault(identity) ==
    IF identity = "class" THEN "Can only apply emits to accessors." ELSE ""

Throw(fault) == [op |-> "throw", key |-> <<>>, payload |-> <<>>, held |-> 0, fault |-> fault]

\* the raise of a wrapped access; held is the value of the member at that
\* moment
AccessRaise(identity, access, value, held, dispatch, hasEmit) ==
    IF identity = "instance"
    THEN IF dispatch
         THEN [op |-> "dispatch", key |-> Prebuilt.type, payload |-> <<Prebuilt>>, held |-> held,
               fault |-> ""]
         ELSE IF hasEmit
         THEN [op |-> "emit", key |-> Prebuilt.type, payload |-> <<Prebuilt>>, held |-> held,
               fault |-> ""]
         ELSE Throw("Object does not have an 'emit()' or 'dispatchEvent()' method.")
    ELSE IF ~hasEmit THEN Throw("Object does not have an 'emit()' method.")
    ELSE IF identity = "symbol" THEN Throw("Cannot convert a Symbol value to a string")
    ELSE [op |-> "emit",
          key |-> IF identity = "custom" THEN CustomKey ELSE Prefixed(access, MemberKey),
          payload |-> Values(<<value>>), held |-> held, fault |-> ""]

\* the original getter, setter or initializer
Underlying(access, value, held) ==
    [op |-> access, key |-> <<>>, payload |-> Values(<<value>>), held |-> held, fault |-> ""]

\* access.get, access.set and access.init, or the member left as it was; value
\* is the value got, written or given as initial value
AccessSteps(cls, access, value, held, hasEmit) ==
    IF ~Wraps(cls.kind, cls.mode, access) THEN <<Underlying(access, value, held)>>
    ELSE IF access = "set"
    THEN <<AccessRaise(cls.identity, access, value, held, cls.dispatch, hasEmit),
           Underlying(access, value, held)>>
    ELSE <<Underlying(access, value, held),
           AccessRaise(cls.identity, access, value, held, cls.dispatch, hasEmit)>>

\* the steps carried out: nothing follows a throw
PerformedAccess(steps) ==
    LET F[k \in 0..Len(steps)] ==
            IF k = 0 THEN [trace |-> <<>>, fault |-> ""]
            ELSE IF F[k - 1].fault # "" THEN F[k - 1]
            ELSE IF steps[k].op = "throw"
            THEN [trace |-> F[k - 1].trace, fault |-> steps[k].fault]
            ELSE [trace |-> Append(F[k - 1].trace, steps[k]), fault |-> ""]
    IN  F[Len(steps)]

\* whether the original setter or initializer has run
Stored(trace, access) == \E k \in 1..Len(trace) : trace[k].op = access

\* a class with a member decorated by emits(identity, mode)
AccessorClass(kind, identity, mode, extends, dispatch) ==
    [emitters |-> 0, extends |-> extends, event |-> NoEvent, uses |-> "", mode |-> mode,
     identity |-> identity, dispatch |-> dispatch, kind |-> kind]

InitEmits ==
    /\ EmitterIdle
    /\ heap = <<>>
    /\ wlast = W0

\* class C { @emits(identity, mode) accessor value = initial }; new C(): the
\* decorator runs when the class is defined, access.init when the instance is
\* constructed
DefineAccessorClass(kind, identity, mode, extends, dispatch, initial) ==
    /\ heap = <<>>
    /\ IF EmitsFault(identity) # ""
       THEN /\ heap' = heap
            /\ wlast' = [W0 EXCEPT !.kind = "decorate", !.identity = identity, !.mode = mode,
                                   !.fault = EmitsFault(identity)]
       ELSE LET cls == AccessorClass(kind, identity, mode, extends, dispatch)
                r == PerformedAccess(AccessSteps(cls, "init", initial, 0, extends))
            IN  /\ heap' = <<[Obj(cls) EXCEPT !.ok = (r.fault = "")]
                              @@ [value |-> initial, accesses |-> 0]>>
                /\ wlast' = [W0 EXCEPT !.kind = "init", !.obj = 1, !.identity = identity,
                                       !.mode = mode, !.args = <<initial>>, !.result = initial,
                                       !.fault = r.fault, !.trace = r.trace]
    /\ UNCHANGED emitterVars

\* instance.value
Read(o) ==
    /\ heap[o].accesses < MaxAccesses
    /\ LET cls == heap[o].cls
           r == PerformedAccess(AccessSteps(cls, "get", heap[o].value, heap[o].value,
                                            HasOn(heap, o)))
       IN  /\ heap' = [heap EXCEPT ![o].accesses = @ + 1]
           /\ wlast' = [W0 EXCEPT !.kind = "read", !.obj = o, !.identity = cls.identity,
                                  !.mode = cls.mode, !.result = heap[o].value,
                                  !.fault = r.fault, !.trace = r.trace]
    /\ UNCHANGED emitterVars

\* instance.value = v
Write(o, v) ==
    /\ heap[o].accesses < MaxAccesses
    /\ LET cls == heap[o].cls
           r == PerformedAccess(AccessSteps(cls, "set", v, heap[o].value, HasOn(heap, o)))
       IN  /\ heap' = [heap EXCEPT ![o].accesses = @ + 1,
                                   ![o].value = IF Stored(r.trace, "set") THEN v ELSE @]
           /\ wlast' = [W0 EXCEPT !.kind = "write", !.obj = o, !.identity = cls.identity,
                                  !.mode = cls.mode, !.args = <<v>>, !.result = heap[o].value,
                                  !.fault = r.fault, !.trace = r.trace]
    /\ UNCHANGED emitterVars

EmitsNext ==
    \/ \E kind \in MemberKinds, identity \in EmitsIdentities, mode \in EmitsModes,
          extends \in BOOLEAN, dispatch \in BOOLEAN, initial \in AccessValues :
           DefineAccessorClass(kind, identity, mode, extends, dispatch, initial)
    \/ \E o \in Alive : Read(o)
    \/ \E o \in Alive, v \in AccessValues : Write(o, v)

SpecEmits == InitEmits /\ [][EmitsNext]_vars

\* =====================================================================
\* EventEmitter.assertCanRegister / assertCanEmit / assertIsEmitter
\* =====================================================================
\* the property names the assertions look at
RegisterSurfaces == {"on", "addListener", "addEventListener"}
EmitSurfaces == {"emit", "dispatchEvent"}

\* the values handed to an assertion: undefined and null, and objects with any
\* of the five properties set to a method, deriving from the base emitter
\* (base) or carrying EventEmitter.symbol (mark) or neither
Subjects ==
    {[is |-> a, props |-> {}, base |-> FALSE, mark |-> FALSE] : a \in {"undefined", "null"}}
    \cup [is : {"object"}, props : SUBSET (RegisterSurfaces \cup EmitSurfaces),
          base : BOOLEAN, mark : BOOLEAN]

\* !object
IsFalsy(o) == o.is # "object"

\* static [Symbol.hasInstance](instance)
HasInstance(o) == o.base \/ o.mark

\* the two ways a static assertion ends
Returned(value) == [fault |-> "", returned |-> value]
Thrown(fault) == [fault |-> fault, returned |-> ""]

AssertCanRegisterNoNative(o) ==
    IF IsFalsy(o) THEN Thrown("is not defined")
    ELSE IF HasInstance(o) THEN Returned("true")
    ELSE IF o.props \cap {"on", "addListener"} # {} THEN Returned("true")
    ELSE Thrown("is not an EventEmitter")

AssertCanRegister(o) ==
    IF IsFalsy(o) THEN Thrown("is not defined")
    ELSE IF HasInstance(o) THEN Returned("true")
    ELSE IF o.props \cap RegisterSurfaces # {} THEN Returned("true")
    ELSE Thrown("is not an EventEmitter")

AssertCanEmit(o) ==
    IF IsFalsy(o) THEN Thrown("is not defined")
    ELSE IF HasInstance(o) THEN Returned("true")
    ELSE IF o.props \cap EmitSurfaces # {} THEN Returned("true")
    ELSE Thrown("does not emit events")

\* assertCanEmit, then assertCanRegister, and no return statement
AssertIsEmitter(o) ==
    IF AssertCanEmit(o).fault # "" THEN AssertCanEmit(o)
    ELSE IF AssertCanRegister(o).fault # "" THEN AssertCanRegister(o)
    ELSE Returned("undefined")

\* what a call of an assertion left: which one, and how it ended
Asserted(kind, outcome) ==
    [kind |-> kind, obj |-> 1, fault |-> outcome.fault, returned |-> outcome.returned]

InitAssert ==
    /\ EmitterIdle
    /\ heap \in {<<o>> : o \in Subjects}
    /\ wlast = W0

CallAssertCanRegister ==
    /\ wlast' = Asserted("assertCanRegister", AssertCanRegister(heap[1]))
    /\ UNCHANGED <<heap, emitterVars>>

CallAssertCanEmit ==
    /\ wlast' = Asserted("assertCanEmit", AssertCanEmit(heap[1]))
    /\ UNCHANGED <<heap, emitterVars>>

CallAssertIsEmitter ==
    /\ wlast' = Asserted("assertIsEmitter", AssertIsEmitter(heap[1]))
    /\ UNCHANGED <<heap, emitterVars>>

AssertNext ==
    \/ CallAssertCanRegister
    \/ CallAssertCanEmit
    \/ CallAssertIsEmitter

SpecAssert == InitAssert /\ [][AssertNext]_vars




\* =====================================================================
\* Properties
\* =====================================================================
IsPrefix(a, b) == Len(a) <= Len(b) /\ a = SubSeq(b, 1, Len(a))

EmitFrames == {p \in 1..Len(stack) : stack[p].kind = "emit"}

\* C1: an emit(key) call that returns has invoked exactly the subscribers of
\* key's list as it stood when the call started, each as often as it occurred
\* there, whatever earlier subscribers of the same call added or removed; a
\* call in progress has invoked a prefix of that list.
C1_SnapshotDelivery ==
    /\ (last.kind = "emit" /\ last.result = "true") => last.delivered = last.atStart
    /\ \A p \in EmitFrames : IsPrefix(stack[p].delivered, stack[p].atStart)

\* an emit over two or more subscribers returned to the host although a
\* subscriber body changed key's list while it ran
C1_Witness ==
    /\ stack = <<>> /\ wrappers = <<>>
    /\ last.kind = "emit" /\ last.result = "true"
    /\ Len(last.atStart) >= 2
    /\ Get(events, last.type) # last.atStart

\* C2: the original callable of a once-registered subscriber is invoked at
\* most once, nested emits included.
C2_OnceInvokedOnce ==
    \A w \in 1..Len(wrappers) : wrappers[w].limit = 1 => wrappers[w].calls <= 1

\* C3: on appends at the tail and prependListener / prependOnceListener insert
\* at the head of key's list, and every emit invokes subscribers in the order
\* of the list it started from.
C3_ListOrder ==
    /\ (last.kind = "add" /\ last.result = "ok") =>
          last.after = IF last.prepend THEN <<last.l>> \o last.before
                       ELSE Append(last.before, last.l)
    /\ last.kind = "emit" => IsPrefix(last.delivered, last.atStart)

\* prependOnceListener completed on a key that already had a subscriber
C3_Witness ==
    /\ last.kind = "add" /\ last.result = "ok"
    /\ last.prepend /\ last.l.wrap
    /\ last.before # <<>>
    /\ Head(last.after) = last.l


AddFrames == {p \in 1..Len(stack) : stack[p].kind = "add"}

InSomeList(l) == \E t \in DOMAIN events : Count(l, events[t]) > 0

\* C4: a registration raises newListener with (key, subscriber, prepend) before
\* it stores the subscriber: while #addListener waits for the notification the
\* frame above it is that emit; a limited-use wrapper being registered is in no
\* list and in no emit started meanwhile; and as long as no further public call
\* was made, key's list holds the subscriber exactly as often as before.
C4_NewListenerBeforeInsert ==
    \A p \in AddFrames :
        LET a == stack[p]
        IN  /\ p < Len(stack) =>
                 /\ stack[p + 1].kind = "emit"
                 /\ stack[p + 1].type = NewListenerKey
                 /\ stack[p + 1].args = NewListenerArgs(a.type, a.l, a.prepend)
            /\ a.l.wrap =>
                 /\ ~InSomeList(a.l)
                 /\ \A q \in EmitFrames :
                        Count(a.l, stack[q].atStart) = 0 /\ Count(a.l, stack[q].delivered) = 0
            /\ ops = a.ops0 => Count(a.l, Get(events, a.type)) = Count(a.l, a.atStart)

\* a newListener handler, running for a once registration on the user key,
\* emits that key, which has a list
C4_Witness ==
    \E p \in AddFrames : \E q \in EmitFrames :
        /\ q > p + 1
        /\ stack[p].l.wrap
        /\ stack[p].type = UserKey
        /\ stack[q].type = UserKey

\* C5 as claimed: emit returns false and invokes nothing without a list, and
\* returns true whenever it invoked a subscriber.
C5_ReturnsTrueWheneverInvoked ==
    last.kind = "emit" =>
        /\ last.atStart = <<>> => (last.result = "false" /\ last.delivered = <<>>)
        /\ last.delivered # <<>> => last.result = "true"

\* C5 amended: emit returns false and invokes nothing when key has no list;
\* with a list it invokes a subscriber and returns true unless a fault
\* propagates out of the call, also after a fault was redirected to error.
C5_EmitResult ==
    last.kind = "emit" =>
        /\ last.atStart = <<>> => (last.result = "false" /\ last.delivered = <<>>)
        /\ last.atStart # <<>> => (last.result \in {"true", "throw"} /\ last.delivered # <<>>)
        /\ (last.delivered # <<>> /\ last.thrown = 0) => last.result = "true"
        /\ last.result = "throw" <=> last.thrown # 0

\* an emit returned true to the host after a subscriber's fault went to error
C5_Witness ==
    /\ stack = <<>>
    /\ last.kind = "emit" /\ last.result = "true"
    /\ last.toError # {}

\* C6 as claimed: once a fault was redirected to error, the call invokes the
\* whole snapshot and returns true.
C6_RedirectAlwaysCompletes ==
    (last.kind = "emit" /\ last.toError # {}) =>
        (last.result = "true" /\ last.delivered = last.atStart)

\* C6 amended: a fault caught while the error key has subscribers is raised on
\* the error key with the fault as argument and never leaves that emit; unless
\* another fault propagates, the rest of the snapshot is invoked and emit
\* returns true.
C6_ErrorRedirect ==
    /\ \A p \in EmitFrames :
           /\ stack[p].pc = "toError" =>
                  \E r \in stack[p].toError : r.fault = stack[p].caught
           /\ stack[p].pc = "toMonitor" =>
                  \A r \in stack[p].toError : r.fault # stack[p].caught
           /\ (stack[p].pc = "toError" /\ p < Len(stack)) =>
                  /\ stack[p + 1].kind = "emit"
                  /\ stack[p + 1].type = ErrorKey
                  /\ stack[p + 1].args = FaultArgs(stack[p].caught)
    /\ last.kind = "emit" =>
           /\ \A r \in last.toError : r.fault # last.thrown
           /\ (last.toError # {} /\ last.thrown = 0) =>
                  (last.result = "true" /\ last.delivered = last.atStart)

\* a fault of a subscriber that was not the last one went to error, and the
\* emit went on to the end of its snapshot and returned true
C6_Witness ==
    /\ last.kind = "emit" /\ last.result = "true"
    /\ \E r \in last.toError : r.at < Len(last.delivered)
    /\ last.delivered = last.atStart

\* C7 as claimed: with no error subscriber and a monitor subscriber, the fault
\* that leaves emit is the original one.
C7_OriginalFaultPropagates ==
    (last.kind = "emit" /\ \E r \in last.noError : r.monitor) =>
        (last.result = "throw" /\ last.thrown = last.caught)

\* C7 amended: with no error subscriber and a monitor subscriber, the monitor
\* key is raised with the fault first; the call then always ends with a fault,
\* the original one unless the monitor delivery itself faults, and invokes no
\* subscriber after the faulting one.
C7_MonitorObserves ==
    /\ \A p \in EmitFrames :
           /\ stack[p].noError # {} =>
                  /\ stack[p].pc = "toMonitor"
                  /\ \E r \in stack[p].noError :
                         r.fault = stack[p].caught /\ r.monitor /\ r.at = Len(stack[p].delivered)
           /\ (stack[p].pc = "toMonitor" /\ p < Len(stack)) =>
                  /\ stack[p + 1].kind = "emit"
                  /\ stack[p + 1].type = MonitorKey
                  /\ stack[p + 1].args = FaultArgs(stack[p].caught)
    /\ (last.kind = "emit" /\ \E r \in last.noError : r.monitor) =>
           /\ last.result = "throw"
           /\ last.cause \in {"rethrow", "toMonitor"}
           /\ last.cause = "rethrow" => last.thrown = last.caught
           /\ \E r \in last.noError : r.fault = last.caught /\ r.at = Len(last.delivered)

\* the monitor subscribers have returned and the original fault reached the host
C7_Witness ==
    /\ stack = <<>>
    /\ last.kind = "emit" /\ last.cause = "rethrow"
    /\ last.thrown = last.caught

\* C8 as claimed: a fault leaves emit only when neither the error key nor the
\* monitor key has subscribers.
C8_PropagatesOnlyWhenNeither ==
    (last.kind = "emit" /\ last.cause \in {"unhandled", "rethrow"}) =>
        \E r \in last.noError : r.fault = last.thrown /\ ~r.monitor

\* C8 amended: a subscriber's fault is recovered locally only when the error
\* key has subscribers; it leaves emit exactly when the error key has none,
\* directly or after the monitor subscribers have seen it, and then no
\* subscriber after the faulting one is invoked.
C8_PropagatesWithoutError ==
    last.kind = "emit" =>
        /\ last.cause \in {"unhandled", "rethrow"} =>
               \E r \in last.noError :
                   /\ r.fault = last.thrown
                   /\ r.at = Len(last.delivered)
                   /\ r.monitor <=> last.cause = "rethrow"
        /\ last.noError # {} => last.result = "throw"
        /\ \A r \in last.toError : r.fault # last.thrown

\* a fault left an emit through the monitor with subscribers of the snapshot
\* still to come
C8_Witness ==
    /\ last.kind = "emit" /\ last.cause = "rethrow"
    /\ Len(last.delivered) < Len(last.atStart)

\* C9: off(key, fn) right after once(key, fn) leaves key without the
\* subscriber.
C9_OffRemovesOnce ==
    \A w \in 1..Len(wrappers) :
        ( /\ last.kind = "remove" /\ last.result = "ok"
          /\ last.type = wrappers[w].type /\ last.l = wrappers[w].listener
          /\ wrappers[w].calls = 0
          /\ last.before = <<Wrapped(w)>> ) => last.after = <<>>

\* C10: listeners(key) holds original callables only, never a limited-use
\* wrapper.
C10_ListenersOriginals ==
    \A t \in DOMAIN events :
        \A i \in 1..Len(events[t]) : ~Listeners(events, onceRegistry, t)[i].wrap

RemoveFrames == {p \in 1..Len(stack) : stack[p].kind = "remove"}

\* the removeListener notification of the #removeListener at p has just been
\* raised: no handler has run yet
JustNotified(p) ==
    /\ p + 1 = Len(stack)
    /\ stack[p + 1].kind = "emit" /\ stack[p + 1].delivered = <<>>

\* list without its first entry equal to l, the other entries in their order
WithoutFirst(list, l) ==
    LET i == CHOOSE n \in 1..Len(list) : list[n] = l /\ \A j \in 1..(n - 1) : list[j] # l
    IN  SubSeq(list, 1, i - 1) \o SubSeq(list, i + 1, Len(list))

\* C11: off / removeListener(key, fn) with fn in key's list removes exactly
\* the first entry equal to fn and keeps the others in their order, so that
\* key's list, which is what a later emit(key) invokes, holds fn one time
\* fewer.
C11_RemovesFirstMatch ==
    /\ ( /\ last.kind = "remove" /\ last.result = "ok"
         /\ RemoveListenerKey \notin scope.types
         /\ Count(last.l, last.before) > 0 ) =>
           /\ last.after = WithoutFirst(last.before, last.l)
           /\ Count(last.l, last.after) = Count(last.l, last.before) - 1
    /\ \A p \in RemoveFrames :
           (JustNotified(p) /\ Count(stack[p].l, stack[p].atStart) > 0) =>
               Get(events, stack[p].type) = WithoutFirst(stack[p].atStart, stack[p].l)
    /\ (last.kind = "emit" /\ last.result = "true") =>
           \A i \in scope.fns : Count(Fn(i), last.delivered) = Count(Fn(i), last.atStart)

\* off removed the first of two entries of the same callable that had another
\* subscriber between them
C11_Witness ==
    /\ last.kind = "remove" /\ last.result = "ok"
    /\ Len(last.before) = 3
    /\ last.before[1] = last.l /\ last.before[2] # last.l /\ last.before[3] = last.l
    /\ last.after = <<last.before[2], last.before[3]>>

\* C12: off / removeListener(key, fn) with fn not in key's list raises no
\* removeListener notification: where no limited-use wrapper is involved,
\* every notification raised by #removeListener reports an entry that was in
\* the list.
C12_AbsentIsNoOp ==
    wrappers = <<>> => \A p \in RemoveFrames : Count(stack[p].l, stack[p].atStart) > 0

\* C13: when off / removeListener removes an entry, removeListener is raised
\* with (key, subscriber) once the entry has left the list: when the handlers
\* start, key's list holds the subscriber one time fewer, and a removed
\* limited-use wrapper is in no list and in no emit started by a handler.
C13_NotifiedAfterRemoval ==
    \A p \in RemoveFrames :
        LET a == stack[p]
        IN  Count(a.l, a.atStart) > 0 =>
              /\ p < Len(stack) =>
                    /\ stack[p + 1].kind = "emit"
                    /\ stack[p + 1].type = RemoveListenerKey
                    /\ stack[p + 1].args = RemoveListenerArgs(a.type, a.l)
              /\ JustNotified(p) =>
                    Count(a.l, Get(events, a.type)) = Count(a.l, a.atStart) - 1
              /\ a.l.wrap =>
                    /\ ~InSomeList(a.l)
                    /\ \A q \in EmitFrames : q > p => Count(a.l, stack[q].atStart) = 0

\* a removeListener handler, running for the removal of key's only subscriber,
\* emitted key and found no subscriber
C13_Witness ==
    \E p \in RemoveFrames :
        /\ stack[p].atStart = <<stack[p].l>>
        /\ Top.kind = "body"
        /\ last.kind = "emit" /\ last.type = stack[p].type /\ last.result = "false"

BulkFrames == {p \in 1..Len(stack) : stack[p].kind = "bulk"}

\* C14: during removeAllListeners each removeListener notification is raised
\* just after its entry was removed: when the handlers start, the key's list
\* holds the reported subscriber fewer times than when the removal began.
C14_BulkNotifiedAfterRemoval ==
    \A p \in BulkFrames :
        JustNotified(p) =>
            LET a == stack[p + 1].args
            IN  Count(a.l, Get(events, a.type)) < Count(a.l, stack[p].atStart)

\* the notifications (key, subscriber) for every entry of list, in list order
NotificationsFor(type, list) == [i \in 1..Len(list) |-> RemoveListenerArgs(type, list[i])]

\* ... for the lists of ev, key after key
NotificationsForAll(ev, keys) ==
    LET F[n \in 0..Len(keys)] ==
            IF n = 0 THEN <<>> ELSE F[n - 1] \o NotificationsFor(keys[n], ev[keys[n]])
    IN  F[Len(keys)]

\* C15: a removeAllListeners call that returns has raised removeListener for
\* every entry it removes, as often as the entry occurs; when no subscriber
\* made a call or removed itself meanwhile, these are the entries of every list
\* (without a key) or of key's list (with a key), once each and in list order.
\* Without a key no key is left; with a key that key is gone and, when no
\* subscriber made a call meanwhile, the other lists are as they were.
C15_BulkNotifiesEachOnce ==
    (last.kind = "bulk" /\ last.result = "ok") =>
        /\ \A t \in DOMAIN last.dropped :
               \A i \in 1..Len(last.dropped[t]) :
                   LET l == last.dropped[t][i]
                   IN  Count(RemoveListenerArgs(t, l), last.notified) >= Count(l, last.dropped[t])
        /\ last.cause = "all" =>
              /\ last.evEnd = EmptyMap
              /\ (last.quiet /\ wrappers = <<>>) =>
                     last.notified = NotificationsForAll(last.evStart, last.keysStart)
        /\ last.cause = "keyed" =>
              /\ ~Has(last.evEnd, last.type)
              /\ (last.quiet /\ wrappers = <<>>) =>
                     /\ last.notified = NotificationsFor(last.type, Get(last.evStart, last.type))
                     /\ DOMAIN last.evEnd = DOMAIN last.evStart \ {last.type}
                     /\ \A t \in DOMAIN last.evEnd : last.evEnd[t] = last.evStart[t]

\* ---------------------------------------------------- decorators: wiring
\* the instances whose class has a method with a dotted listen directive
Owners == {o \in Alive : Includes(heap[o].cls.event, Dot)}

\* how many times the listener is attached to x for "event"
Attached(x, listener) == Count(listener, Invoked(heap, x, EvPlain))

\* C16: for an @emitter class with a dotted listen directive whose nested
\* targets existed at construction, an emit of the event on the deepest object
\* invokes the annotated method of every constructed owner exactly once, also
\* when an intermediate object is a wired @emitter instance with dotted
\* directives of its own
C16_InvokedOncePerOwner ==
    wlast.kind = "emit" =>
        \A o \in Owners :
            (heap[o].cls.emitters = 1 /\ heap[o].resolved = wlast.obj)
                => Count(Bound(o), wlast.invoked) = 1

\* C17: when the nested property is assigned only after the construction of
\* the owner, the construction still succeeds and an emit on the deepest
\* object invokes the annotated method exactly once
C17_AssignmentTimeIrrelevant ==
    /\ (wlast.kind = "construct" /\ heap[wlast.obj].cls.emitters = 1)
           => wlast.fault # "Emitter is not defined."
    /\ wlast.kind = "emit" =>
           \A o \in Owners :
               (/\ heap[o].cls.emitters = 1
                /\ heap[o].resolved = 0
                /\ ResolvePath(heap, o, heap[o].cls.event) = wlast.obj)
                   => Count(Bound(o), wlast.invoked) = 1

\* C18: every pending entry is consumed exactly once, so that draining an
\* object again never attaches the same subscriber a second time
C18_ConsumedOnce ==
    \A x \in 1..Len(heap) :
        \A i, j \in 1..Len(heap[x].attached) :
            i # j => heap[x].attached[i] # heap[x].attached[j]

\* C19 as stated: the dotted directive of a class without @emitter is never
\* attached, and a non-dotted directive attaches at construction
C19_OnlyWrapperMaterializes ==
    /\ \A o \in Owners : heap[o].cls.emitters = 0 =>
           \A x \in 1..Len(heap) : Attached(x, Bound(o)) = 0
    /\ (/\ wlast.kind = "construct"
        /\ heap[wlast.obj].cls.emitters = 0
        /\ heap[wlast.obj].cls.extends
        /\ heap[wlast.obj].cls.event = EvPlain)
           => Attached(wlast.obj, Bound(wlast.obj)) = 1

\* C19, amended: the dotted directive of a class without @emitter is not
\* attached by the construction of its instance, and is attached later only if
\* the instance was drained as a target of another object's dotted directive;
\* a non-dotted directive of a class that extends EventEmitter attaches at
\* construction without @emitter
C19_MaterializedByDrain ==
    /\ \A o \in 1..Len(heap) :
           (/\ heap[o].cls.emitters = 0
            /\ Includes(heap[o].cls.event, Dot)
            /\ \E x \in 1..Len(heap) : Attached(x, Bound(o)) > 0)
               => heap[o].reached
    /\ (/\ wlast.kind = "construct"
        /\ heap[wlast.obj].cls.emitters = 0
        /\ Includes(heap[wlast.obj].cls.event, Dot))
           => /\ wlast.fault = ""
              /\ \A x \in 1..Len(heap) : Attached(x, Bound(wlast.obj)) = 0
    /\ (/\ wlast.kind = "construct"
        /\ heap[wlast.obj].cls.emitters = 0
        /\ heap[wlast.obj].cls.extends
        /\ heap[wlast.obj].cls.event = EvPlain)
           => /\ wlast.fault = ""
              /\ Attached(wlast.obj, Bound(wlast.obj)) = 1

\* an emit on the target of an undecorated class's dotted directive that does
\* not invoke the method, while the non-dotted method of another instance is
\* attached
C19_Witness ==
    /\ wlast.kind = "emit"
    /\ \E o \in Owners :
           /\ heap[o].cls.emitters = 0
           /\ ~heap[o].reached
           /\ ResolvePath(heap, o, heap[o].cls.event) = wlast.obj
           /\ Count(Bound(o), wlast.invoked) = 0
    /\ \E u \in Alive :
           /\ heap[u].cls.emitters = 0
           /\ heap[u].cls.event = EvPlain
           /\ Attached(u, Bound(u)) = 1

\* ------------------------------------------------- decorators: emit modes
Emits(trace) == SelectSeq(trace, LAMBDA s : s.op = "emit")

Calls(trace) == SelectSeq(trace, LAMBDA s : s.op = "call")

\* C20: for an event given by name the wrapped method raises, per mode:
\* before/none before the call with no payload; args before the call with the
\* call arguments; after after the call with the call arguments; result after
\* the call with the return value; all after the call with the return value
\* followed by the call arguments; conditional after the call with the call
\* arguments and only if the return value is truthy. A call raises at most one
\* event and every subscriber observes it once
C20_EmitModes ==
    (wlast.kind = "method" /\ wlast.fault = "") =>
        LET t == wlast.trace
            before(payload) == t = <<EmitStep(payload), CallStep>>
            after(payload) == t = <<CallStep, EmitStep(payload)>>
            subscribers == Invoked(heap, wlast.obj, EvPlain)
        IN  /\ Len(Calls(t)) = 1
            /\ Len(Emits(t)) <= 1
            /\ wlast.mode \in {"before", "none"} => before(<<>>)
            /\ wlast.mode = "args" => before(wlast.args)
            /\ wlast.mode = "after" => after(wlast.args)
            /\ wlast.mode = "result" => after(<<wlast.result>>)
            /\ wlast.mode = "all" => after(<<wlast.result>> \o wlast.args)
            /\ wlast.mode = "conditional" =>
                   IF wlast.result # 0 THEN after(wlast.args) ELSE t = <<CallStep>>
            /\ Len(wlast.seen) = Len(Emits(t)) * Len(subscribers)
            /\ \A i \in 1..Len(wlast.seen) :
                   /\ wlast.seen[i].listener = subscribers[i]
                   /\ wlast.seen[i].payload = Emits(t)[1].payload
                   /\ wlast.seen[i].called = (wlast.mode \notin {"before", "none", "args"})

\* a method in mode result returned 42 and the subscriber observed 42 once,
\* after the call; and a method in mode all was called with two arguments
C20_Witness ==
    /\ wlast.kind = "method"
    /\ wlast.fault = ""
    /\ \/ /\ wlast.mode = "result"
          /\ wlast.result = 42
          /\ wlast.seen = <<[listener |-> [obj |-> 0, method |-> 1], payload |-> <<42>>,
                             called |-> TRUE]>>
       \/ /\ wlast.mode = "all"
          /\ wlast.args = <<7, 0>>
          /\ Len(wlast.seen) = 2

\* ------------------------------------ decorators: emit, Event identities
Raises(trace) == SelectSeq(trace, LAMBDA s : s.op # "call")

\* the raise precedes the call / follows it / is left out
RaisedBefore(t) == Len(t) = 2 /\ t[1].op # "call" /\ t[2].op = "call"

RaisedAfter(t) == Len(t) = 2 /\ t[1].op = "call" /\ t[2].op # "call"

NotRaised(t) == Len(t) = 1 /\ t[1].op = "call"

\* C21: given a pre-built event object the wrapper raises that same object
\* unchanged: before the call for before/none, after it for after, after it
\* and only on a truthy return value for conditional and for all (the
\* default); modes args and result are refused with an invalid-mode error when
\* the class is defined, so no method decorated that way is ever called
C21_InstanceRaisedUnchanged ==
    /\ (wlast.kind = "decorate" /\ wlast.identity = "instance") =>
           /\ wlast.mode \in {"args", "result"} =>
                  wlast.fault = "Invalid emit mode for Event object."
           /\ wlast.mode \in {"before", "none", "after", "conditional", "all"} =>
                  wlast.fault = ""
    /\ (wlast.kind = "method" /\ wlast.identity = "instance") =>
           /\ wlast.mode \notin {"args", "result"}
           /\ wlast.fault = "" =>
                  LET t == wlast.trace
                  IN  /\ \A i \in 1..Len(Raises(t)) :
                             /\ Raises(t)[i].payload = <<Prebuilt>>
                             /\ Raises(t)[i].key = TypeKey
                      /\ wlast.mode \in {"before", "none"} => RaisedBefore(t)
                      /\ wlast.mode = "after" => RaisedAfter(t)
                      /\ wlast.mode \in {"conditional", "all"} =>
                             IF wlast.result # 0 THEN RaisedAfter(t) ELSE NotRaised(t)

\* a method decorated with a pre-built event in the default mode returned a
\* truthy value and the object was raised after the call
C21_Witness ==
    /\ wlast.kind = "method"
    /\ wlast.identity = "instance"
    /\ wlast.mode = "all"
    /\ wlast.result = 42
    /\ wlast.fault = ""
    /\ RaisedAfter(wlast.trace)
    /\ wlast.trace[2].payload = <<Prebuilt>>

\* the event of the n-th call as the table describes it for a constructor
BuiltFor(class, tag, n) ==
    <<Fresh(class, Detail(tag, wlast.args, wlast.result), n)>>

\* the values of the last call that the table names for a payload
TableValues(tag) ==
    IF tag = "none" THEN <<>>
    ELSE IF tag = "args" THEN Values(wlast.args)
    ELSE IF tag = "result" THEN Values(<<wlast.result>>)
    ELSE Values(<<wlast.result>> \o wlast.args)

\* the step carries the payload of the table, as the detail of a new event or
\* as the arguments of an emit
Carries(step, class, tag, n) ==
    IF step.op = "dispatch" THEN step.payload = BuiltFor(class, tag, n)
    ELSE step.payload = TableValues(tag)

AccessRaises(trace) == SelectSeq(trace, LAMBDA s : s.op \in {"emit", "dispatch"})

\* a symbol given as custom name
SymbolKey == <<"Symbol(valueChanged)">>

\* the name an access raises: the prefixed member name, or the custom name
\* without prefix
NameFor(identity, access) ==
    IF identity = "default" THEN Prefixed(access, MemberKey)
    ELSE IF identity = "custom" THEN CustomKey
    ELSE SymbolKey

\* the last access went through a wrapper of a class given a name (or none)
\* on an object that has emit()
NamedAccess(kind, access) ==
    /\ wlast.kind = kind
    /\ wlast.identity \in {"default", "custom", "symbol"}
    /\ HasOn(heap, wlast.obj)
    /\ heap[wlast.obj].cls.kind \in {"accessor", IF access = "get" THEN "getter" ELSE "setter"}
    /\ wlast.mode \in {access, "both", "all"}

\* C23: reading a member wrapped by emits (mode get, both or all) first calls
\* the original getter, then raises get:<member> (or the custom name, without
\* prefix) exactly once with the value obtained, and returns that value
C23_ReadRaisesAfterGetter ==
    NamedAccess("read", "get") =>
        /\ wlast.fault = ""
        /\ Len(wlast.trace) = 2
        /\ wlast.trace[1].op = "get"
        /\ wlast.trace[2].op = "emit"
        /\ wlast.trace[2].key = NameFor(wlast.identity, "get")
        /\ wlast.trace[2].payload = Values(<<wlast.result>>)
        /\ wlast.result = heap[wlast.obj].value

\* C24: writing a member wrapped by emits raises set:<member> (or the custom
\* name) with the new value before the write is carried out: during the
\* notification the member still holds the previous value, and after the write
\* it holds the new one
C24_WriteRaisesBeforeSetter ==
    NamedAccess("write", "set") =>
        /\ wlast.fault = ""
        /\ Len(wlast.trace) = 2
        /\ wlast.trace[1].op = "emit"
        /\ wlast.trace[1].key = NameFor(wlast.identity, "set")
        /\ wlast.trace[1].payload = Values(wlast.args)
        /\ wlast.trace[1].held = wlast.result
        /\ wlast.trace[2].op = "set"
        /\ heap[wlast.obj].value = wlast.args[1]

\* the access of the last operation
AccessOf(kind) == IF kind = "init" THEN "init" ELSE IF kind = "read" THEN "get" ELSE "set"

\* C25: the mode selects which accesses raise: get only reads, set only
\* writes, both reads and writes, init only the initialization, all the three;
\* an access that is not selected raises nothing, a selected one raises once
\* (unless the raise itself fails), and with init selected the construction of
\* an instance raises init:<member> exactly once with the initial value
C25_ModeSelectsAccesses ==
    wlast.kind \in {"init", "read", "write"} =>
        LET access == AccessOf(wlast.kind)
            cls == heap[wlast.obj].cls
            selected == \/ wlast.mode = access
                        \/ wlast.mode = "both" /\ access \in {"get", "set"}
                        \/ wlast.mode = "all"
            decorated == \/ cls.kind = "accessor"
                         \/ cls.kind = "getter" /\ access = "get"
                         \/ cls.kind = "setter" /\ access = "set"
        IN  /\ ~(selected /\ decorated) =>
                   /\ wlast.fault = ""
                   /\ AccessRaises(wlast.trace) = <<>>
            /\ (selected /\ decorated) =>
                   IF wlast.fault = "" THEN Len(AccessRaises(wlast.trace)) = 1
                   ELSE AccessRaises(wlast.trace) = <<>>
            /\ (selected /\ decorated /\ access = "init" /\ wlast.identity = "default"
                    /\ cls.extends) =>
                   /\ wlast.fault = ""
                   /\ wlast.trace[1].op = "init"
                   /\ wlast.trace[2].op = "emit"
                   /\ wlast.trace[2].key = Prefixed("init", MemberKey)
                   /\ wlast.trace[2].payload = Values(wlast.args)

\* a read of an accessor in mode set raised nothing, after the construction
\* (not selected either) had stored 42; and a construction in mode init raised
\* init:value with 42
C25_Witness ==
    \/ /\ wlast.kind = "read"
       /\ wlast.mode = "set"
       /\ heap[wlast.obj].cls.kind = "accessor"
       /\ wlast.result = 42
       /\ AccessRaises(wlast.trace) = <<>>
    \/ /\ wlast.kind = "init"
       /\ wlast.mode = "init"
       /\ wlast.fault = ""
       /\ Len(wlast.trace) = 2
       /\ wlast.trace[2].key = Prefixed("init", MemberKey)
       /\ wlast.trace[2].payload = Values(<<42>>)

\* C26: given an Event object or an Event constructor the directive is
\* accepted, and each participating access raises that event instead of the
\* get:/set:/init: name, carrying no value
C26_EventIdentityAccepted ==
    /\ (wlast.kind = "decorate" /\ wlast.identity \in {"instance", "class"}) =>
           wlast.fault = ""
    /\ (wlast.kind \in {"init", "read", "write"} /\ wlast.identity \in {"instance", "class"}
            /\ wlast.fault = "") =>
           \A i \in 1..Len(AccessRaises(wlast.trace)) :
               /\ AccessRaises(wlast.trace)[i].key = TypeKey
               /\ AccessRaises(wlast.trace)[i].payload = <<Prebuilt>>

\* ---------------------------------------------------------------------
\* the wrappers of once / prependOnceListener whose original is running or has
\* run: limitedWrapped has reached listener.apply
Fired == {w \in 1..Len(wrappers) :
             /\ wrappers[w].limit = 1
             /\ \/ wrappers[w].calls > 0
                \/ \E p \in 1..Len(stack) : stack[p].kind = "body" /\ stack[p].caught = w}

\* the wrappers whose original is running now
Running == {w \in 1..Len(wrappers) :
               /\ wrappers[w].limit = 1
               /\ \E p \in 1..Len(stack) : stack[p].kind = "body" /\ stack[p].caught = w}

\* C27: once the subscriber registered with once has fired, its entry is not in
\* the list of its key: listeners(key) does not return it and listenerCount(key)
\* does not count it, and this already holds while the subscriber's body runs
C27_OnceAbsentAfterFiring ==
    \A w \in Fired :
        /\ Count(Wrapped(w), Get(events, wrappers[w].type)) = 0
        /\ Count(Wrapped(w), Listeners(events, onceRegistry, wrappers[w].type)) = 0
        /\ \A t \in DOMAIN events : Count(Wrapped(w), events[t]) = 0

\* the body of a once subscriber is running, its key still has another entry,
\* and the wrapper is not among them
C27_Witness ==
    \E w \in Running :
        /\ Has(events, wrappers[w].type)
        /\ Count(Wrapped(w), events[wrappers[w].type]) = 0
        /\ Top.kind = "body" /\ Top.caught = w

\* ---------------------------------------------------------------------
\* a step in which on / once returns without having raised newListener
AddsUnnotified == ops' = ops + 1 /\ last'.kind = "add" /\ Len(stack') = Len(stack)

\* #addListener is back from its newListener notification and about to insert
AddNotified == stack # <<>> /\ Top.kind = "add" /\ exc = 0

\* the notification of the registration about to be inserted reached every
\* entry the newListener list had when the registration was called, once each
\* and in order, and not the entry being registered
NotifiedOnceEach ==
    /\ last.kind = "emit" /\ last.type = NewListenerKey
    /\ last.delivered = last.atStart
    /\ last.atStart # <<>>
    /\ Top.type = NewListenerKey =>
           /\ last.atStart = Top.atStart
           /\ Count(Top.l, last.delivered) = Count(Top.l, Top.atStart)

\* C28: a subscriber of newListener is not notified of its own registration (the
\* registration that creates the list raises nothing; one that joins the list
\* notifies the entries already there) and every registration called while it
\* is subscribed, for any key, notifies it exactly once before inserting
C28_NewListenerObservesLater ==
    /\ [](AddNotified => NotifiedOnceEach)
    /\ [][AddsUnnotified => ~Has(events, NewListenerKey)]_vars

\* a registration for another key is about to be inserted after the newListener
\* subscriber registered earlier was notified of it
C28_Witness ==
    /\ AddNotified
    /\ Top.type = UserKey
    /\ last.kind = "emit" /\ last.type = NewListenerKey
    /\ last.delivered = <<Fn(1)>>
    /\ Get(events, NewListenerKey) = <<Fn(1)>>

\* ---------------------------------------------------------------------
\* C29 as claimed: every removeListener notification raised for an entry that
\* once / prependOnceListener stored (removed by firing, by off or by
\* removeAllListeners) carries the callable the caller passed, never the
\* limitedWrapped closure
C29_NotificationCarriesOriginal ==
    \A p \in EmitFrames :
        stack[p].type = RemoveListenerKey => ~stack[p].args.l.wrap

\* ---------------------------------------------------------------------
\* the ceiling in force: get maxListeners
Ceiling == MaxListeners(mxListeners, scope.classDefault)

\* C30: the listener ceiling never blocks a registration: whatever the length of
\* the list and whatever the ceiling in force (constructor option,
\* setMaxListeners or the class default), an on / once / prepend call that
\* returns has stored one more entry for its subscriber, and a registration
\* fails only with the fault a newListener subscriber threw
C30_CeilingNeverBlocks ==
    /\ (last.kind = "add" /\ last.result = "ok") =>
          /\ Len(last.after) = Len(last.before) + 1
          /\ Count(last.l, last.after) = Count(last.l, last.before) + 1
    /\ (last.kind = "add" /\ last.result = "throw") => last.thrown \in 1..nfault

\* after setMaxListeners(2) a third entry was stored in the list of the key,
\* and the warning was printed
C30_Witness ==
    /\ last.kind = "add" /\ last.result = "ok"
    /\ mxListeners = <<2>>
    /\ Ceiling = 2
    /\ Len(last.after) = 3
    /\ last.after = Get(events, last.type)
    /\ last.warned

\* ---------------------------------------------------------------------
\* a step in which #addListener stores an entry in the list of type
Inserts(type) == Len(Get(events', type)) > Len(Get(events, type))

\* the step calls console.warn
Warns == last'.kind = "add" /\ last'.warned /\ last' # last

\* C35: the max-listeners warning is printed exactly by an insertion that leaves
\* the list longer than the ceiling in force while the list does not carry the
\* warned flag, which the insertion then sets: at most once per list, never with
\* ceiling 0; no other step prints it or sets a flag, and the insertion that
\* prints it raises no event (no emit starts in that step)
C35_WarningOncePerList ==
    [][ /\ \A type \in scope.types :
              Inserts(type) =>
                  /\ Warns <=> (Ceiling > 0 /\ Len(events'[type]) > Ceiling /\ type \notin warned)
                  /\ warned' = IF Warns THEN warned \cup {type} ELSE warned
                  /\ Len(stack') <= Len(stack)
        /\ (\A type \in scope.types : ~Inserts(type)) => (~Warns /\ warned' \subseteq warned)
        /\ Warns => Ceiling > 0 ]_vars

\* the second entry of a list went over a ceiling of 1 and the warning was
\* printed, and a third was stored without another warning
C35_Witness ==
    /\ last.kind = "add" /\ last.result = "ok"
    /\ Ceiling = 1
    /\ Len(last.after) = 3
    /\ last.after = Get(events, last.type)
    /\ last.type \in warned
    /\ ~last.warned

\* ---------------------------------------------------------------------
InNames(type) == \E i \in 1..Len(EventNames(keyOrder)) : EventNames(keyOrder)[i] = type

AllKeys == {UserKey, ErrorKey, MonitorKey, NewListenerKey, RemoveListenerKey}

\* no list of #events is empty: eventNames() lists a key exactly when
\* listenerCount(key) >= 1, exactly when emit(key) finds a list
NoEmptyList ==
    \A type \in AllKeys :
        /\ InNames(type) <=> ListenerCount(events, type) >= 1
        /\ ListenerCount(events, type) >= 1 <=> EmitFinds(events, type)

\* C38 as claimed: no list is empty, and an emit call returned true exactly
\* when its key had a subscriber when it was called
C38_NamesCountEmitTrue ==
    /\ NoEmptyList
    /\ last.kind = "emit" => (last.result = "true" <=> Len(last.atStart) >= 1)

\* C38, amended: no list is empty (a key is in eventNames() exactly when
\* listenerCount(key) >= 1, exactly when emit(key) finds a list), and an emit
\* call returns false exactly when its key had no subscriber when it was called;
\* with a subscriber it returns true unless a subscriber's fault leaves the call
C38_NoEmptyList ==
    /\ NoEmptyList
    /\ last.kind = "emit" =>
          /\ last.result = "false" <=> Len(last.atStart) = 0
          /\ last.result = "throw" => last.thrown # 0

\* the only entry of a key was removed while an emit of that key was running, so
\* the key left eventNames(), and the emit returned true
C38_Witness ==
    /\ last.kind = "emit" /\ last.result = "true"
    /\ Len(last.atStart) = 1
    /\ ~InNames(last.type)
    /\ ListenerCount(events, last.type) = 0
    /\ stack = <<>>

\* ---------------------------------------------------------------------
\* the emits of the error key in progress
ErrorEmits == {p \in EmitFrames : stack[p].type = ErrorKey}

\* C39 as claimed: a fault raised while the error key is being delivered is not
\* redirected to the error key again: no emit of the error key is waiting for
\* an emit of the error key that its own catch block started
C39_ErrorFaultNotRedirected ==
    \A p \in ErrorEmits : stack[p].pc # "toError"

\* ---------------------------------------------------------------------
\* C40 as claimed: rawListeners(key) never fails and returns the stored list,
\* limited-use wrappers included, which is the empty sequence for a key without
\* subscriber
C40_RawListenersNeverFails ==
    last.kind = "raw" => (last.result = "ok" /\ last.after = last.before)

\* ---------------------------------------------------------------------
\* the wrappers created by limited(key, fn, n) with n >= 2
Limited == {w \in 1..Len(wrappers) : wrappers[w].limit >= 2}

\* C37 as claimed: the callable registered with limited(key, fn, n) is invoked
\* on the first n deliveries only: it is never invoked more than n times, its
\* entry stays in the list of key until the n-th delivery begins and is in no
\* list from then on
C37_LimitedFiresFirstN ==
    \A w \in Limited :
        /\ wrappers[w].calls <= wrappers[w].limit
        /\ wrappers[w].calls >= wrappers[w].limit =>
               Count(Wrapped(w), Get(events, wrappers[w].type)) = 0

\* ---------------------------------------------------------------------
\* the wrappers made for a value that is not a function
JunkWrappers == {w \in 1..Len(wrappers) : ~CheckListener(wrappers[w].listener)}

\* C32 as claimed: a registration of a value that is not a function fails with
\* an error and changes nothing: on / once never return normally for it, no list
\* holds it or a wrapper made for it, and no newListener notification or
\* delivery is ever under way for it
C32_NonCallableRejected ==
    /\ (last.kind = "add" /\ ~CheckListener(last.l)) => last.result = "throw"
    /\ \A w \in JunkWrappers :
           /\ ~InSomeList(Wrapped(w))
           /\ ~(last.kind = "add" /\ last.l = Wrapped(w) /\ last.result = "ok")
           /\ wrappers[w].calls = 0

\* ---------------------------------------------------------------------
\* the reasons of the promises that subscribers returned and #emit captured
Reasons == {rejections[i].fault : i \in 1..Len(rejections)}

\* the rejection handlers running
RejectionFrames == {p \in 1..Len(stack) : stack[p].kind = "rejection"}

Subject == heap[1]

Recognized == Subject.is = "object" /\ (Subject.base \/ Subject.mark)

Exposes(names) == Subject.is = "object" /\ \E n \in names : n \in Subject.props

AssertionHolds(names, refusal) ==
    /\ wlast.returned = "true" <=> (Recognized \/ Exposes(names))
    /\ wlast.returned # "true" => wlast.returned = "" /\ wlast.fault # ""
    /\ wlast.fault = "is not defined" <=> Subject.is # "object"
    /\ wlast.fault # "" /\ Subject.is = "object" => wlast.fault = refusal

C33_AssertionsTrueExactlyWhenExposed ==
    /\ wlast.kind = "assertCanRegister"
        => AssertionHolds({"on", "addListener", "addEventListener"}, "is not an EventEmitter")
    /\ wlast.kind = "assertCanEmit"
        => AssertionHolds({"emit", "dispatchEvent"}, "does not emit events")

C33_Witness ==
    /\ wlast.kind = "assertCanRegister"
    /\ Subject.is = "object"
    /\ Subject.props = {"addEventListener"}
    /\ ~Subject.base /\ ~Subject.mark
    /\ wlast.returned = "true"

\* ---------------------------------------------------------------------
\* C34: assertIsEmitter(obj) returns true exactly when both assertCanRegister
\* and assertCanEmit succeed, and otherwise fails with the error of the first
\* failing assertion (first in the order the function makes the two calls).
BothSucceed ==
    Recognized \/ (Exposes({"on", "addListener", "addEventListener"})
                   /\ Exposes({"emit", "dispatchEvent"}))

FirstFailure ==
    IF Subject.is # "object" THEN "is not defined"
    ELSE IF ~Exposes({"emit", "dispatchEvent"}) THEN "does not emit events"
    ELSE "is not an EventEmitter"

C34_IsEmitterTrueWhenBoth ==
    wlast.kind = "assertIsEmitter" =>
        IF BothSucceed THEN wlast.returned = "true" /\ wlast.fault = ""
        ELSE wlast.returned = "" /\ wlast.fault = FirstFailure

\* ---------------------------------------------------------------------
\* C36: construction-time wiring terminates: _applyPendingListeners returns
\* for every object graph, also when dotted path segments lead back to an
\* object that is already being drained; no construction ends in the
\* exhaustion of the call stack.
C36_WiringTerminates ==
    wlast.kind = "construct" => wlast.fault # "Maximum call stack size exceeded"

====
